---- MODULE Spec2Model ----
(***************************************************************************)
(* Model of the publish queue and the daily limit                          *)
(* (src/src/publishing/scheduler.py), the publish records                  *)
(* (src/src/publishing/uploaders/youtube.py), the item and task            *)
(* repositories (src/src/storage/repositories) and the analysis            *)
(* transaction (src/src/analysis/scene_analyzer.py).                       *)
(***************************************************************************)
EXTENDS Integers, Sequences, FiniteSets, TLC

(***************************************************************************)
(* Bounds of the model.                                                    *)
(***************************************************************************)
MaxCalls == 3
MaxClock == 1
MaxAttempts == 1
MaxDays == 1

(* The clock counts hours; timedelta(days=1) is 24 of them.                *)
TicksPerDay == 24

(***************************************************************************)
(* Values.                                                                 *)
(***************************************************************************)
Platforms == {"youtube", "tiktok"}
Priorities == {5, 8}
QueueStatuses == {"queued", "uploading", "completed", "failed"}

(* Python None for an Optional[str] argument.                              *)
NoMessage == "<None>"
ErrorMessages == {NoMessage, "", "boom"}

(* Optional timestamps as the queue file holds them: null / key absent, or *)
(* the ISO text of a time.                                                 *)
NoTime == [has |-> FALSE, iso |-> <<>>]

(* datetime.isoformat(): fixed-width, most significant field first.        *)
IsoFormat(t) == <<t \div 10, t % 10>>

(* datetime.fromisoformat()                                                *)
FromIso(s) == s[1] * 10 + s[2]

SomeTime(t) == [has |-> TRUE, iso |-> IsoFormat(t)]

(* Python's str < str: lexicographic order of the characters.              *)
RECURSIVE StrLess(_, _)
StrLess(a, b) ==
    IF b = <<>> THEN FALSE
    ELSE IF a = <<>> THEN TRUE
    ELSE IF a[1] # b[1] THEN a[1] < b[1]
    ELSE StrLess(Tail(a), Tail(b))

VARIABLES
    queue,      \* contents of data/upload_queue.json
    clock,      \* datetime.utcnow()
    ret,        \* the most recent call and what it gave back to its caller
    calls,      \* number of calls that wrote to a store so far
    videos,     \* committed rows of table video_urls, by id
    tasks,      \* committed rows of table tasks, by id
    sess,       \* rows of video_urls as the open session sees them
    pc,         \* where analyze_video_by_id stands
    writers,    \* the processes writing the queue file: call and loaded copy
    acked,      \* what the calls of those processes gave back so far
    serial,     \* whether calls of different processes are kept apart
    records,    \* committed rows of table publish_records
    daily_limit,\* publishing.schedule.daily_limit of the loaded configuration
    report,     \* the most recent check_daily_limit: arguments and result
    optimal_times, \* general.scheduling.optimal_times of the configuration
    next_time,  \* the most recent get_next_upload_time: base time and result
    stats,      \* the most recent get_queue_statistics: what it returned
    batch,      \* the most recent schedule_batch_uploads: arguments and result
    filtered,   \* the most recent filter_videos: arguments and result
    dispatchers, \* each dispatcher: where it is in its loop, what it holds
    uploads     \* how often the uploader was invoked, by queue position

rvars == <<videos, tasks, sess, pc>>
wvars == <<writers, acked, serial>>
pvars == <<records, daily_limit, report>>
qvars == <<optimal_times, next_time, stats, batch, filtered,
           dispatchers, uploads>>
vars == <<queue, clock, ret, calls, videos, tasks, sess, pc,
          writers, acked, serial, records, daily_limit, report,
          optimal_times, next_time, stats, batch, filtered,
          dispatchers, uploads>>

Counted == calls < MaxCalls /\ calls' = calls + 1

NoCall == [op |-> "none", outcome |-> "ok", ids |-> <<>>, now |-> 0,
           platform |-> "", limit |-> 0]

(* The members of enum Platform.                                           *)
PlatformNames == {"youtube", "tiktok", "instagram"}

(* Values of daily_limit in config/schedule.yaml; 3 when the key is absent.*)
DefaultDailyLimit == 3
DailyLimits == {0, 1, DefaultDailyLimit}

(* The Optional[datetime] argument of check_daily_limit.                   *)
NoDate == [has |-> FALSE, t |-> 0]
SomeDate(t) == [has |-> TRUE, t |-> t]

NoReport == [outcome |-> "none", platform |-> "", start |-> 0, limit |-> 0,
             used |-> 0, remaining |-> 0, limit_reached |-> FALSE]

(* A datetime with the fields get_next_upload_time reads and replaces.     *)
DateTime(day, hour, minute) == [day |-> day, hour |-> hour, minute |-> minute]

(* The clock counts whole hours from midnight of day 0.                    *)
DateTimeOf(t) == DateTime(t \div TicksPerDay, t % TicksPerDay, 0)
HoursOf(dt) == dt.day * TicksPerDay + dt.hour

(* optimal_times as the code defaults it, and lists a configuration file   *)
(* can hold: not ascending, one hour only, empty.                          *)
DefaultOptimalTimes == <<9, 12, 18, 21>>
HourLists == {DefaultOptimalTimes, <<21, 9>>, <<12>>, <<>>}

(* base_time: Optional[datetime]                                           *)
NoBase == [has |-> FALSE, dt |-> DateTime(0, 0, 0)]
SomeBase(dt) == [has |-> TRUE, dt |-> dt]

NoNextTime == [outcome |-> "none", base |-> DateTime(0, 0, 0),
               result |-> DateTime(0, 0, 0)]

NoStats ==
    [outcome |-> "none", total |-> 0,
     counts |-> [st \in QueueStatuses |-> 0],
     by_platform |-> [p \in {} |-> [st \in QueueStatuses |-> 0]]]

IdleDispatcher == [pc |-> "idle", todo |-> <<>>, rounds |-> 0]

NoFiltered ==
    [outcome |-> "none", videos |-> <<>>, max_age_hours |-> 0,
     min_vph |-> 0, now |-> 0, kept |-> <<>>]

NoBatch ==
    [outcome |-> "none", files |-> 0, metadata |-> 0, platform |-> "",
     start |-> NoBase, hours |-> 0, ids |-> <<>>]

(***************************************************************************)
(* _load_queue / _save_queue: the whole list is read and written.          *)
(***************************************************************************)
(* _load_queue as it would be if it took the file for missing.            *)
LoadQueueMissing(file) == <<>>

(* The load as it would be if it put failed entries back in line.          *)
LoadQueueRetrying(file) ==
    [i \in 1..Len(file) |->
        IF file[i].status = "failed"
        THEN [file[i] EXCEPT !.status = "queued"] ELSE file[i]]

LoadQueue(file) == file

SaveQueue(q) == q

(***************************************************************************)
(* add_to_queue                                                            *)
(***************************************************************************)
EntryId(platform, now) == <<platform, now>>

NewEntry(platform, scheduled, priority, now) ==
    [id |-> EntryId(platform, now),
     platform |-> platform,
     scheduled_time |-> scheduled,
     priority |-> priority,
     status |-> "queued",
     attempts |-> 0,
     last_error |-> NoMessage,
     started_at |-> NoTime,
     completed_at |-> NoTime]

(* queue.append(entry) as it would be if it put the entry first.           *)
AddEntryInFront(q, platform, scheduled, priority, now) ==
    <<NewEntry(platform, scheduled, priority, now)>> \o q

AddEntry(q, platform, scheduled, priority, now) ==
    Append(q, NewEntry(platform, scheduled, priority, now))

AddToQueue(platform, scheduled, priority) ==
    /\ Counted
    /\ queue' = SaveQueue(AddEntry(LoadQueue(queue), platform, scheduled,
                                   priority, clock))
    /\ ret' = [op |-> "add_to_queue", outcome |-> "ok",
               ids |-> <<EntryId(platform, clock)>>, now |-> clock,
               platform |-> "", limit |-> 0]
    /\ UNCHANGED <<clock, rvars, wvars, pvars, qvars>>

(***************************************************************************)
(* get_ready_uploads                                                       *)
(***************************************************************************)
NoFilter == "<None>"
NoLimit == 0

(* The test as it would be if the queue held back the entries of a        *)
(* platform whose uploads have used up the daily limit.                    *)
IsReadyUnderLimit(e, platform, now) ==
    /\ e.status = "queued"
    /\ ~(platform # NoFilter /\ platform # "" /\ e.platform # platform)
    /\ ~(e.scheduled_time.has /\ FromIso(e.scheduled_time.iso) > now)
    /\ Cardinality({i \in DOMAIN records :
                       records[i].platform = e.platform}) < daily_limit

(* The test as it would be if an entry that a dispatcher holds were kept  *)
(* from the others.                                                        *)
IsReadyUnclaimed(e, platform, now) ==
    /\ e.status = "queued"
    /\ ~(platform # NoFilter /\ platform # "" /\ e.platform # platform)
    /\ ~(e.scheduled_time.has /\ FromIso(e.scheduled_time.iso) > now)
    /\ \A d \in DOMAIN dispatchers :
          \A k \in 1..Len(dispatchers[d].todo) :
              queue[dispatchers[d].todo[k]].id # e.id

IsReady(e, platform, now) ==
    /\ e.status = "queued"
    /\ ~(platform # NoFilter /\ platform # "" /\ e.platform # platform)
    /\ ~(e.scheduled_time.has /\ FromIso(e.scheduled_time.iso) > now)

(* Positions of the ready entries, in queue order.                         *)
ReadyIdx(q, platform, now) ==
    SelectSeq([i \in 1..Len(q) |-> i], LAMBDA i : IsReady(q[i], platform, now))

(* The sort key is (-priority, scheduled_time); the second component is    *)
(* None for an unscheduled entry, and None does not compare with a str.    *)
KeyRaises(a, b) ==
    /\ a.priority = b.priority
    /\ a.scheduled_time.has # b.scheduled_time.has

KeyLess(a, b) ==
    \/ -a.priority < -b.priority
    \/ /\ a.priority = b.priority
       /\ a.scheduled_time.has /\ b.scheduled_time.has
       /\ StrLess(a.scheduled_time.iso, b.scheduled_time.iso)

(* list.sort(): stable; insert each element after the elements that are    *)
(* not greater than it.                                                    *)
RECURSIVE InsertSorted(_, _, _)
InsertSorted(q, sorted, i) ==
    IF sorted = <<>> THEN <<i>>
    ELSE IF KeyLess(q[i], q[Head(sorted)]) THEN <<i>> \o sorted
    ELSE <<Head(sorted)>> \o InsertSorted(q, Tail(sorted), i)

RECURSIVE SortIdx(_, _)
SortIdx(q, idx) ==
    IF idx = <<>> THEN <<>>
    ELSE InsertSorted(q, SortIdx(q, SubSeq(idx, 1, Len(idx) - 1)), idx[Len(idx)])

SortRaises(q, idx) ==
    \E m, n \in 1..Len(idx) : KeyRaises(q[idx[m]], q[idx[n]])

(* The cut as it would be if only a missing limit, and not 0, meant all.   *)
TruncateAtZero(s, limit) ==
    IF limit < Len(s) THEN SubSeq(s, 1, limit) ELSE s

Truncate(s, limit) ==
    IF limit # NoLimit /\ limit < Len(s) THEN SubSeq(s, 1, limit) ELSE s

GetReadyUploads(limit, platform) ==
    LET q == LoadQueue(queue)
        ready == ReadyIdx(q, platform, clock)
    IN  /\ ret' = IF SortRaises(q, ready)
                  THEN [op |-> "get_ready_uploads", outcome |-> "TypeError",
                        ids |-> <<>>, now |-> clock,
                        platform |-> platform, limit |-> limit]
                  ELSE [op |-> "get_ready_uploads", outcome |-> "ok",
                        ids |-> Truncate(SortIdx(q, ready), limit),
                        now |-> clock,
                        platform |-> platform, limit |-> limit]
        /\ UNCHANGED <<queue, clock, calls, rvars, wvars, pvars, qvars>>

(***************************************************************************)
(* update_entry_status                                                     *)
(***************************************************************************)
FirstWithId(q, id) ==
    IF \E i \in 1..Len(q) : q[i].id = id
    THEN CHOOSE i \in 1..Len(q) :
            q[i].id = id /\ \A j \in 1..(i - 1) : q[j].id # id
    ELSE 0

(* update_entry_status as it would be if it only followed the lifecycle    *)
(* queued -> uploading -> completed / failed -> queued.                    *)
SetStatusGuarded(e, status, error_message, now) ==
    LET ok == <<e.status, status>> \in
                 {<<"queued", "uploading">>, <<"uploading", "completed">>,
                  <<"uploading", "failed">>, <<"failed", "queued">>}
        e1 == IF ok THEN [e EXCEPT !.status = status] ELSE e
        e2 == IF ~ok THEN e1
              ELSE IF status = "uploading"
              THEN [e1 EXCEPT !.started_at = SomeTime(now)]
              ELSE IF status \in {"completed", "failed"}
              THEN [e1 EXCEPT !.completed_at = SomeTime(now)]
              ELSE e1
    IN  IF error_message # NoMessage /\ error_message # ""
        THEN [e2 EXCEPT !.last_error = error_message,
                        !.attempts = e.attempts + 1]
        ELSE e2

(* update_entry_status as it would be if only failures counted as attempts.*)
SetStatusCountsFailures(e, status, error_message, now) ==
    LET e1 == [e EXCEPT !.status = status]
        e2 == IF status = "uploading"
              THEN [e1 EXCEPT !.started_at = SomeTime(now)]
              ELSE IF status \in {"completed", "failed"}
              THEN [e1 EXCEPT !.completed_at = SomeTime(now)]
              ELSE e1
    IN  IF error_message # NoMessage /\ error_message # "" /\ status = "failed"
        THEN [e2 EXCEPT !.last_error = error_message,
                        !.attempts = e.attempts + 1]
        ELSE e2

(* update_entry_status as it would be if only completed, not failed, set   *)
(* completed_at.                                                           *)
SetStatusCompletedOnly(e, status, error_message, now) ==
    LET e1 == [e EXCEPT !.status = status]
        e2 == IF status = "uploading"
              THEN [e1 EXCEPT !.started_at = SomeTime(now)]
              ELSE IF status = "completed"
              THEN [e1 EXCEPT !.completed_at = SomeTime(now)]
              ELSE e1
    IN  IF error_message # NoMessage /\ error_message # ""
        THEN [e2 EXCEPT !.last_error = error_message,
                        !.attempts = e.attempts + 1]
        ELSE e2

SetStatus(e, status, error_message, now) ==
    LET e1 == [e EXCEPT !.status = status]
        e2 == IF status = "uploading"
              THEN [e1 EXCEPT !.started_at = SomeTime(now)]
              ELSE IF status \in {"completed", "failed"}
              THEN [e1 EXCEPT !.completed_at = SomeTime(now)]
              ELSE e1
    IN  IF error_message # NoMessage /\ error_message # ""
        THEN [e2 EXCEPT !.last_error = error_message,
                        !.attempts = e.attempts + 1]
        ELSE e2

(* update_entry_status as it would be if an unknown id created an entry.   *)
UpdateEntryUpsert(q, id, status, error_message, now) ==
    LET i == FirstWithId(q, id)
    IN  IF i = 0
        THEN Append(q, SetStatus([NewEntry(id[1], NoTime, 5, now)
                                     EXCEPT !.id = id],
                                 status, error_message, now))
        ELSE [q EXCEPT ![i] = SetStatus(q[i], status, error_message, now)]

(* update_entry_status as it would be without the break after the first   *)
(* entry with the id.                                                      *)
UpdateEntryEvery(q, id, status, error_message, now) ==
    [i \in 1..Len(q) |->
        IF q[i].id = id THEN SetStatus(q[i], status, error_message, now)
        ELSE q[i]]

UpdateEntry(q, id, status, error_message, now) ==
    LET i == FirstWithId(q, id)
    IN  IF i = 0 THEN q
        ELSE [q EXCEPT ![i] = SetStatus(q[i], status, error_message, now)]

UpdateEntryStatus(id, status, error_message) ==
    /\ \A i \in 1..Len(queue) :
          (queue[i].id = id /\ error_message \notin {NoMessage, ""})
              => queue[i].attempts < MaxAttempts
    /\ queue' = SaveQueue(UpdateEntry(LoadQueue(queue), id, status,
                                      error_message, clock))
    /\ ret' = [op |-> "update_entry_status", outcome |-> "ok",
               ids |-> <<id>>, now |-> clock, platform |-> "", limit |-> 0]
    /\ Counted
    /\ UNCHANGED <<clock, rvars, wvars, pvars, qvars>>

(***************************************************************************)
(* remove_from_queue                                                       *)
(***************************************************************************)
RemoveEntry(q, id) == SelectSeq(q, LAMBDA e : e.id # id)

RemoveFromQueue(id) ==
    /\ queue' = SaveQueue(RemoveEntry(LoadQueue(queue), id))
    /\ ret' = [op |-> "remove_from_queue", outcome |-> "ok",
               ids |-> <<>>, now |-> clock, platform |-> "", limit |-> 0]
    /\ Counted
    /\ UNCHANGED <<clock, rvars, wvars, pvars, qvars>>

(***************************************************************************)
(* cleanup_completed                                                       *)
(***************************************************************************)
Timedelta(days) == days * TicksPerDay

(* The keep test without its status part: age alone decides.               *)
KeptByAge(e, days, now) ==
    (IF e.completed_at.has THEN FromIso(e.completed_at.iso) ELSE now)
        > now - Timedelta(days)

KeptByCleanup(e, days, now) ==
    \/ e.status # "completed"
    \/ (IF e.completed_at.has THEN FromIso(e.completed_at.iso) ELSE now)
           > now - Timedelta(days)

CleanupQueue(q, days, now) == SelectSeq(q, LAMBDA e : KeptByCleanup(e, days, now))

CleanupCompleted(days) ==
    LET q == LoadQueue(queue)
        kept == CleanupQueue(q, days, clock)
    IN  /\ queue' = IF Len(q) - Len(kept) > 0 THEN SaveQueue(kept) ELSE queue
        /\ ret' = [op |-> "cleanup_completed", outcome |-> "ok",
                   ids |-> <<>>, now |-> clock, platform |-> "",
                   limit |-> days]
        /\ Counted
        /\ UNCHANGED <<clock, rvars, wvars, pvars, qvars>>

(***************************************************************************)
(* The clock moves on between calls.                                       *)
(***************************************************************************)
Tick ==
    /\ clock < MaxClock
    /\ clock' = clock + 1
    /\ UNCHANGED <<queue, ret, calls, rvars, wvars, pvars, qvars>>

(***************************************************************************)
(* One process using the queue, one call at a time.                        *)
(***************************************************************************)
ScheduledTimes == {NoTime, SomeTime(0), SomeTime(1)}

KnownIds == {queue[i].id : i \in 1..Len(queue)} \cup {<<"youtube", MaxClock + 1>>}

Start ==
    /\ queue = <<>>
    /\ clock = 0
    /\ ret = NoCall
    /\ calls = 0
    /\ videos = <<>>
    /\ tasks = <<>>
    /\ sess = <<>>
    /\ pc = "idle"
    /\ writers = [w \in {1, 2} |-> [pc |-> "idle", q |-> <<>>, op |-> "",
                                   a |-> "", b |-> <<>>]]
    /\ acked = [ids |-> {}, status |-> {}]
    /\ serial \in BOOLEAN
    /\ records = <<>>
    /\ daily_limit \in DailyLimits
    /\ report = NoReport
    /\ optimal_times \in HourLists
    /\ next_time = NoNextTime
    /\ stats = NoStats
    /\ batch = NoBatch
    /\ filtered = NoFiltered
    /\ dispatchers = [d \in {1, 2} |-> IdleDispatcher]
    /\ uploads = [i \in {} |-> 0]

(* Arguments the caller passes.                                            *)
AddInputs ==
    {<<"youtube", NoTime, 5>>, <<"tiktok", NoTime, 5>>,
     <<"youtube", SomeTime(1), 8>>}

UpdateInputs ==
    {<<st, m>> : st \in QueueStatuses, m \in {NoMessage, "boom"}}
        \cup {<<"failed", "">>}

(* One process: its calls never overlap.                                   *)
Init ==
    /\ Start
    /\ serial = TRUE
    /\ daily_limit = DefaultDailyLimit
    /\ optimal_times = DefaultOptimalTimes

Next ==
    \/ Tick
    \/ \E a \in AddInputs : AddToQueue(a[1], a[2], a[3])
    \/ GetReadyUploads(NoLimit, NoFilter)
    \/ \E id \in KnownIds, u \in UpdateInputs :
          UpdateEntryStatus(id, u[1], u[2])
    \/ \E id \in KnownIds : RemoveFromQueue(id)
    \/ \E d \in 0..MaxDays : CleanupCompleted(d)

Spec == Init /\ [][Next]_vars

(***************************************************************************)
(* The same process with the arguments that matter to get_ready_uploads:   *)
(* entries of either platform and priority, unscheduled or scheduled, and  *)
(* status updates that carry no message.                                   *)
(***************************************************************************)
ReadyAddInputs ==
    {<<"youtube", s, pr>> : s \in ScheduledTimes, pr \in Priorities}
        \cup {<<"tiktok", NoTime, 5>>}

ReadyNext ==
    \/ Tick
    \/ \E a \in ReadyAddInputs : AddToQueue(a[1], a[2], a[3])
    \/ \E l \in {NoLimit, 1}, p \in {NoFilter, "youtube"} :
          GetReadyUploads(l, p)
    \/ \E id \in KnownIds, st \in QueueStatuses :
          UpdateEntryStatus(id, st, NoMessage)

SpecReady == Init /\ [][ReadyNext]_vars

(***************************************************************************)
(* Publish records and the daily limit.                                    *)
(***************************************************************************)
(* YouTubeUploader.record_upload_to_database: the only place that creates  *)
(* a publish record.                                                       *)
NewPublishRecord(now) ==
    [platform |-> "youtube", is_published |-> TRUE, published_at |-> now]

RecordUploadToDatabase ==
    /\ Counted
    /\ records' = Append(records, NewPublishRecord(clock))
    /\ ret' = [op |-> "record_upload_to_database", outcome |-> "ok",
               ids |-> <<Len(records) + 1>>, now |-> clock,
               platform |-> "", limit |-> 0]
    /\ UNCHANGED <<queue, clock, rvars, wvars, daily_limit, report, qvars>>

(* date.replace(hour=0, minute=0, second=0, microsecond=0)                 *)
StartOfDay(t) == t - (t % TicksPerDay)

(* The first argument of and_() is                                         *)
(*   PublishRecord.platform == Platform.YOUTUBE if platform == "youtube"   *)
(*   else Platform.TIKTOK                                                  *)
(* The conditional binds weaker than ==: for "youtube" the argument is the *)
(* comparison with Platform.YOUTUBE, for any other platform it is the enum *)
(* member Platform.TIKTOK itself, which and_() refuses (ArgumentError).    *)
PlatformClauseRaises(platform) == platform # "youtube"

PlatformClause(row, platform) == row.platform = "youtube"

(* len(list(result.scalars())) of the query                                *)
TodayUploads(rows, platform, start) ==
    Cardinality({i \in DOMAIN rows :
                    /\ PlatformClause(rows[i], platform)
                    /\ rows[i].published_at >= start
                    /\ rows[i].published_at < start + Timedelta(1)
                    /\ rows[i].is_published = TRUE})

Max(a, b) == IF a >= b THEN a ELSE b

(* remaining = limit - used, without the floor at 0                        *)
RemainingUnfloored(limit, used) == limit - used

(* remaining = max(0, daily_limit - today_uploads)                         *)
Remaining(limit, used) == Max(0, limit - used)

(* UploadScheduler.check_daily_limit                                       *)
CheckDailyLimit(platform, date) ==
    LET d == IF date.has THEN date.t ELSE clock
        start == StartOfDay(d)
        used == TodayUploads(records, platform, start)
        remaining == Remaining(daily_limit, used)
    IN  /\ report' =
              IF PlatformClauseRaises(platform)
              THEN [NoReport EXCEPT !.outcome = "ArgumentError",
                                    !.platform = platform, !.start = start]
              ELSE [outcome |-> "ok", platform |-> platform, start |-> start,
                    limit |-> daily_limit, used |-> used,
                    remaining |-> remaining,
                    limit_reached |-> (remaining = 0)]
        /\ ret' = [op |-> "check_daily_limit",
                   outcome |-> IF PlatformClauseRaises(platform)
                               THEN "ArgumentError" ELSE "ok",
                   ids |-> <<>>, now |-> clock, platform |-> platform,
                   limit |-> daily_limit]
        /\ UNCHANGED <<queue, clock, calls, rvars, wvars, records,
                       daily_limit, qvars>>

(* Dates the caller asks about: today (no argument), a moment of the day   *)
(* the clock starts in, and a moment of the day before it.                 *)
CheckDates == {NoDate, SomeDate(1), SomeDate(0 - 1)}

PublishInit ==
    /\ Start
    /\ serial = TRUE
    /\ optimal_times = DefaultOptimalTimes

PublishNext ==
    \/ Tick
    \/ RecordUploadToDatabase
    \/ \E p \in PlatformNames, d \in CheckDates : CheckDailyLimit(p, d)

SpecPublish == PublishInit /\ [][PublishNext]_vars

(***************************************************************************)
(* get_next_upload_time                                                    *)
(***************************************************************************)
(* The hour test as it would be with >= in place of >.                     *)
NotBefore(h, current_hour) == h >= current_hour

(* h > current_hour                                                        *)
After(h, current_hour) == h > current_hour

(* next_hours = [h for h in optimal_times if h > current_hour]             *)
NextHours(hours, current_hour) ==
    SelectSeq(hours, LAMBDA h : After(h, current_hour))

(* optimal_times[0] of an empty list: IndexError                           *)
NextTimeRaises(base, hours) ==
    NextHours(hours, base.hour) = <<>> /\ hours = <<>>

NextUploadTime(base, hours) ==
    LET next_hours == NextHours(hours, base.hour)
    IN  IF next_hours # <<>>
        THEN DateTime(base.day, next_hours[1], 0)
        ELSE DateTime(base.day + 1, hours[1], 0)

(* UploadScheduler.get_next_upload_time; the platform argument is not read.*)
GetNextUploadTime(platform, base_time) ==
    LET base == IF base_time.has THEN base_time.dt ELSE DateTimeOf(clock)
        raises == NextTimeRaises(base, optimal_times)
    IN  /\ next_time' =
              IF raises
              THEN [NoNextTime EXCEPT !.outcome = "IndexError", !.base = base]
              ELSE [outcome |-> "ok", base |-> base,
                    result |-> NextUploadTime(base, optimal_times)]
        /\ ret' = [op |-> "get_next_upload_time",
                   outcome |-> IF raises THEN "IndexError" ELSE "ok",
                   ids |-> <<>>, now |-> clock, platform |-> platform,
                   limit |-> 0]
        /\ UNCHANGED <<queue, clock, calls, rvars, wvars, pvars,
                       optimal_times, stats, batch, filtered,
                       dispatchers, uploads>>

(* Base times the caller passes: before, at and after listed hours, with   *)
(* and without minutes, on two days; or none.                              *)
BaseTimes ==
    {NoBase} \cup
    {SomeBase(DateTime(d, h, m)) :
        d \in {0, 1}, h \in {8, 9, 12, 20, 21, 23}, m \in {0, 30}}

NextTimeInit ==
    /\ Start
    /\ serial = TRUE
    /\ daily_limit = DefaultDailyLimit

NextTimeNext ==
    \/ Tick
    \/ \E p \in PlatformNames, b \in BaseTimes : GetNextUploadTime(p, b)

SpecNextTime == NextTimeInit /\ [][NextTimeNext]_vars

(***************************************************************************)
(* Item and task stores (src/src/storage).                                 *)
(***************************************************************************)
MaxVideos == 2
MaxTasks == 1
MaxRetries == 1
MaxRepoCalls == 4

CountedRepo == calls < MaxRepoCalls /\ calls' = calls + 1

VideoStatuses ==
    {"pending", "analyzing", "analyzed", "generating", "generated",
     "processing", "processed", "ready", "published", "failed", "skipped"}

TaskStatuses == {"pending", "running", "completed", "failed", "cancelled"}

(* A status passed as the plain string "analyzed", as ui/api_server.py     *)
(* passes it, instead of a member of the enum.                             *)
RawAnalyzed == "str:analyzed"

(* logger.info(f"... {status.value}") after session.flush(): only a member *)
(* of the enum has .value, any other object raises AttributeError.         *)
StatusValueRaises(status, members) == status \notin members

(* An id that no row has.                                                  *)
VideoIds == 1..(MaxVideos + 1)
TaskIds == 1..(MaxTasks + 1)

(* A nullable DateTime column: NULL is -1.                                 *)
NullTime == 0 - 1

(* VideoRepository.add_url: a new row, status PENDING, column defaults.    *)
NewVideo(now) ==
    [status |-> "pending",
     error_message |-> NoMessage,
     retry_count |-> 0,
     analysis_data |-> "null",
     updated_at |-> now]

(* VideoRepository.update_status as it would be if an error message also   *)
(* counted a retry.                                                        *)
VideoUpdateStatusCounting(rows, id, status, error_message, now) ==
    IF id \notin DOMAIN rows THEN rows
    ELSE [rows EXCEPT ![id] =
            [@ EXCEPT !.status = status,
                      !.updated_at = now,
                      !.error_message =
                          IF error_message \notin {NoMessage, ""}
                          THEN error_message ELSE @,
                      !.retry_count =
                          IF error_message \notin {NoMessage, ""}
                          THEN @ + 1 ELSE @]]

(* VideoRepository.update_status as it would be if an id that no row has   *)
(* created the row.                                                        *)
VideoUpdateStatusUpsert(rows, id, status, error_message, now) ==
    IF id \notin DOMAIN rows
    THEN Append(rows, [NewVideo(now) EXCEPT !.status = status])
    ELSE [rows EXCEPT ![id] =
            [@ EXCEPT !.status = status,
                      !.updated_at = now,
                      !.error_message =
                          IF error_message \notin {NoMessage, ""}
                          THEN error_message ELSE @]]

(* VideoRepository.update_status as it would be if it refused to move an   *)
(* item out of PUBLISHED or SKIPPED.                                       *)
VideoUpdateStatusFinal(rows, id, status, error_message, now) ==
    IF id \notin DOMAIN rows THEN rows
    ELSE IF rows[id].status \in {"published", "skipped"} THEN rows
    ELSE [rows EXCEPT ![id] =
            [@ EXCEPT !.status = status,
                      !.updated_at = now,
                      !.error_message =
                          IF error_message \notin {NoMessage, ""}
                          THEN error_message ELSE @]]

(* VideoRepository.update_status on the rows the session sees.             *)
VideoUpdateStatus(rows, id, status, error_message, now) ==
    IF id \notin DOMAIN rows THEN rows
    ELSE [rows EXCEPT ![id] =
            [@ EXCEPT !.status = status,
                      !.updated_at = now,
                      !.error_message =
                          IF error_message \notin {NoMessage, ""}
                          THEN error_message ELSE @]]

(* VideoRepository.update_analysis_data                                    *)
VideoUpdateAnalysisData(rows, id, data, now) ==
    IF id \notin DOMAIN rows THEN rows
    ELSE [rows EXCEPT ![id] =
            [@ EXCEPT !.analysis_data = data, !.updated_at = now]]

(* increment_retry_count as it would be if it counted down.                *)
VideoDecrementRetry(rows, id, now) ==
    IF id \notin DOMAIN rows THEN rows
    ELSE [rows EXCEPT ![id] =
            [@ EXCEPT !.retry_count = @ - 1, !.updated_at = now]]

(* VideoRepository.increment_retry_count                                   *)
VideoIncrementRetry(rows, id, now) ==
    IF id \notin DOMAIN rows THEN rows
    ELSE [rows EXCEPT ![id] =
            [@ EXCEPT !.retry_count = @ + 1, !.updated_at = now]]

(* TaskRepository.create_task                                              *)
NewTask ==
    [status |-> "pending",
     started_at |-> NullTime,
     completed_at |-> NullTime,
     error_message |-> NoMessage,
     result |-> "null",
     retry_count |-> 0,
     progress |-> 0]

(* Task.progress is a float; the model counts it in tenths: 10 is 1.0.     *)
ProgressOne == 10

Min(a, b) == IF a <= b THEN a ELSE b

(* update_progress as it would be if it stored its argument as given.      *)
UnclampedProgress(progress) == progress

(* max(0.0, min(1.0, progress))                                            *)
ClampProgress(progress) == Max(0, Min(ProgressOne, progress))

(* TaskRepository.update_progress                                          *)
TaskUpdateProgress(rows, id, progress) ==
    IF id \notin DOMAIN rows THEN rows
    ELSE [rows EXCEPT ![id] = [@ EXCEPT !.progress = ClampProgress(progress)]]

(* update_task_status as it would be if every entry into RUNNING stamped   *)
(* started_at.                                                             *)
TaskUpdateStatusRestart(rows, id, status, error_message, result, now) ==
    IF id \notin DOMAIN rows THEN rows
    ELSE [rows EXCEPT ![id] =
            [@ EXCEPT !.status = status,
                      !.started_at = IF status = "running" THEN now ELSE @,
                      !.completed_at =
                          IF status \in {"completed", "failed", "cancelled"}
                          THEN now ELSE @,
                      !.error_message =
                          IF error_message \notin {NoMessage, ""}
                          THEN error_message ELSE @,
                      !.result = IF result # "null" THEN result ELSE @]]

(* update_task_status as it would be if it left a task alone once it is    *)
(* COMPLETED, FAILED or CANCELLED.                                         *)
TaskUpdateStatusTerminal(rows, id, status, error_message, result, now) ==
    IF id \notin DOMAIN rows THEN rows
    ELSE IF rows[id].status \in {"completed", "failed", "cancelled"} THEN rows
    ELSE [rows EXCEPT ![id] =
            [@ EXCEPT !.status = status,
                      !.started_at =
                          IF status = "running" /\ @ = NullTime THEN now ELSE @,
                      !.completed_at =
                          IF status \in {"completed", "failed", "cancelled"}
                          THEN now ELSE @,
                      !.error_message =
                          IF error_message \notin {NoMessage, ""}
                          THEN error_message ELSE @,
                      !.result = IF result # "null" THEN result ELSE @]]

(* update_task_status as it would be if CANCELLED did not stamp            *)
(* completed_at.                                                           *)
TaskUpdateStatusCancelUnstamped(rows, id, status, error_message, result, now) ==
    IF id \notin DOMAIN rows THEN rows
    ELSE [rows EXCEPT ![id] =
            [@ EXCEPT !.status = status,
                      !.started_at =
                          IF status = "running" /\ @ = NullTime THEN now ELSE @,
                      !.completed_at =
                          IF status \in {"completed", "failed"}
                          THEN now ELSE @,
                      !.error_message =
                          IF error_message \notin {NoMessage, ""}
                          THEN error_message ELSE @,
                      !.result = IF result # "null" THEN result ELSE @]]

(* TaskRepository.update_task_status                                       *)
TaskUpdateStatus(rows, id, status, error_message, result, now) ==
    IF id \notin DOMAIN rows THEN rows
    ELSE [rows EXCEPT ![id] =
            [@ EXCEPT !.status = status,
                      !.started_at =
                          IF status = "running" /\ @ = NullTime THEN now ELSE @,
                      !.completed_at =
                          IF status \in {"completed", "failed", "cancelled"}
                          THEN now ELSE @,
                      !.error_message =
                          IF error_message \notin {NoMessage, ""}
                          THEN error_message ELSE @,
                      !.result = IF result # "null" THEN result ELSE @]]

(* TaskRepository.increment_retry_count                                    *)
TaskIncrementRetry(rows, id) ==
    IF id \notin DOMAIN rows THEN rows
    ELSE [rows EXCEPT ![id] = [@ EXCEPT !.retry_count = @ + 1]]

RepoRet(op, outcome, id) ==
    [op |-> op, outcome |-> outcome, ids |-> <<id>>, now |-> clock,
     platform |-> "", limit |-> 0]

(* Each call below runs in its own "with get_session()" block, which       *)
(* commits when the block ends without an exception.                       *)
AddUrl ==
    /\ pc = "idle"
    /\ Len(videos) < MaxVideos
    /\ CountedRepo
    /\ videos' = Append(videos, NewVideo(clock))
    /\ ret' = RepoRet("add_url", "ok", Len(videos) + 1)
    /\ UNCHANGED <<wvars, queue, clock, tasks, sess, pc, pvars, qvars>>

(* A call that raises leaves its get_session block through the rollback,   *)
(* so what it had flushed is not committed.                                *)
UpdateStatus(id, status, error_message) ==
    LET flushed == VideoUpdateStatus(videos, id, status, error_message, clock)
        raises == id \in DOMAIN videos /\ StatusValueRaises(status, VideoStatuses)
    IN  /\ pc = "idle"
        /\ CountedRepo
        /\ videos' = IF raises THEN videos ELSE flushed
        /\ ret' = RepoRet("update_status",
                          IF raises THEN "raised"
                          ELSE IF id \in DOMAIN videos THEN "ok" ELSE "None",
                          id)
        /\ UNCHANGED <<wvars, queue, clock, tasks, sess, pc, pvars, qvars>>

IncrementRetryCount(id) ==
    /\ pc = "idle"
    /\ id \in DOMAIN videos => videos[id].retry_count < MaxRetries
    /\ CountedRepo
    /\ videos' = VideoIncrementRetry(videos, id, clock)
    /\ ret' = RepoRet("increment_retry_count",
                      IF id \in DOMAIN videos THEN "ok" ELSE "None", id)
    /\ UNCHANGED <<wvars, queue, clock, tasks, sess, pc, pvars, qvars>>

CreateTask ==
    /\ pc = "idle"
    /\ Len(tasks) < MaxTasks
    /\ CountedRepo
    /\ tasks' = Append(tasks, NewTask)
    /\ ret' = RepoRet("create_task", "ok", Len(tasks) + 1)
    /\ UNCHANGED <<wvars, queue, clock, videos, sess, pc, pvars, qvars>>

UpdateTaskStatus(id, status, error_message, result) ==
    LET flushed == TaskUpdateStatus(tasks, id, status, error_message, result,
                                    clock)
        raises == id \in DOMAIN tasks /\ StatusValueRaises(status, TaskStatuses)
    IN  /\ pc = "idle"
        /\ CountedRepo
        /\ tasks' = IF raises THEN tasks ELSE flushed
        /\ ret' = RepoRet("update_task_status",
                          IF raises THEN "raised"
                          ELSE IF id \in DOMAIN tasks THEN "ok" ELSE "None",
                          id)
        /\ UNCHANGED <<wvars, queue, clock, videos, sess, pc, pvars, qvars>>

(* TaskRepository.cancel_task: update_task_status(.., TaskStatus.CANCELLED) *)
CancelTask(id) ==
    /\ pc = "idle"
    /\ CountedRepo
    /\ tasks' = TaskUpdateStatus(tasks, id, "cancelled", NoMessage, "null",
                                 clock)
    /\ ret' = RepoRet("cancel_task",
                      IF id \in DOMAIN tasks THEN "ok" ELSE "None", id)
    /\ UNCHANGED <<wvars, queue, clock, videos, sess, pc, pvars, qvars>>

IncrementTaskRetryCount(id) ==
    /\ pc = "idle"
    /\ id \in DOMAIN tasks => tasks[id].retry_count < MaxRetries
    /\ CountedRepo
    /\ tasks' = TaskIncrementRetry(tasks, id)
    /\ ret' = RepoRet("task_increment_retry_count",
                      IF id \in DOMAIN tasks THEN "ok" ELSE "None", id)
    /\ UNCHANGED <<wvars, queue, clock, videos, sess, pc, pvars, qvars>>

UpdateAnalysisData(id, data) ==
    /\ pc = "idle"
    /\ CountedRepo
    /\ videos' = VideoUpdateAnalysisData(videos, id, data, clock)
    /\ ret' = RepoRet("update_analysis_data",
                      IF id \in DOMAIN videos THEN "ok" ELSE "None", id)
    /\ UNCHANGED <<wvars, queue, clock, tasks, sess, pc, pvars, qvars>>

UpdateProgress(id, progress) ==
    /\ pc = "idle"
    /\ CountedRepo
    /\ tasks' = TaskUpdateProgress(tasks, id, progress)
    /\ ret' = [RepoRet("update_progress",
                       IF id \in DOMAIN tasks THEN "ok" ELSE "None", id)
                  EXCEPT !.limit = progress]
    /\ UNCHANGED <<wvars, queue, clock, videos, sess, pc, pvars, qvars>>

(***************************************************************************)
(* SceneAnalyzer.analyze_video_by_id inside Database.get_session.          *)
(***************************************************************************)
AnalysisFailure == "scene analysis failed"

(* The session opens, the row is looked up and set to ANALYZING.           *)
AnalyzeBegin(id) ==
    /\ pc = "idle"
    /\ CountedRepo
    /\ IF id \in DOMAIN videos
       THEN /\ sess' = VideoUpdateStatus(videos, id, "analyzing", NoMessage, clock)
            /\ pc' = "analysing"
            /\ ret' = RepoRet("analyze_video_by_id", "running", id)
       ELSE \* SceneAnalysisError leaves the block: rollback, close
            /\ sess' = <<>>
            /\ pc' = "idle"
            /\ ret' = RepoRet("analyze_video_by_id", "not found", id)
    /\ UNCHANGED <<wvars, queue, clock, videos, tasks, pvars, qvars>>

(* analyze_video_scenes returns: the payload and ANALYZED are written.     *)
AnalyzeReturns ==
    /\ pc = "analysing"
    /\ sess' = VideoUpdateStatus(
                   VideoUpdateAnalysisData(sess, ret.ids[1], "scenes", clock),
                   ret.ids[1], "analyzed", NoMessage, clock)
    /\ pc' = "returning"
    /\ UNCHANGED <<wvars, queue, clock, ret, calls, videos, tasks, pvars, qvars>>

(* analyze_video_scenes raises: the handler writes FAILED and re-raises.   *)
AnalyzeRaises ==
    /\ pc = "analysing"
    /\ sess' = VideoUpdateStatus(sess, ret.ids[1], "failed", AnalysisFailure, clock)
    /\ pc' = "raising"
    /\ UNCHANGED <<wvars, queue, clock, ret, calls, videos, tasks, pvars, qvars>>

(* get_session: commit after the block, rollback when an exception leaves  *)
(* it; the session is closed either way.                                   *)
SessionCommit ==
    /\ pc = "returning"
    /\ videos' = sess
    /\ sess' = <<>>
    /\ pc' = "idle"
    /\ ret' = [ret EXCEPT !.outcome = "ok"]
    /\ UNCHANGED <<wvars, queue, clock, calls, tasks, pvars, qvars>>

SessionRollback ==
    /\ pc = "raising"
    /\ videos' = videos
    /\ sess' = <<>>
    /\ pc' = "idle"
    /\ ret' = [ret EXCEPT !.outcome = "raised"]
    /\ UNCHANGED <<wvars, queue, clock, calls, tasks, pvars, qvars>>

(* Arguments the callers pass.                                             *)
VideoUpdateInputs ==
    {<<st, m>> : st \in {"analyzing", "analyzed", "failed"},
                 m \in {NoMessage, "boom"}}
        \cup {<<"failed", "">>, <<RawAnalyzed, NoMessage>>}

TaskUpdateInputs ==
    {<<st, m, "null">> : st \in {"running", "failed"},
                         m \in {NoMessage, "boom"}}
        \cup {<<"completed", NoMessage, "result">>, <<"failed", "", "null">>,
              <<RawAnalyzed, NoMessage, "null">>}

(* The repositories called one after another, each call in a session of    *)
(* its own that commits when the call returns.                             *)
RepoNext ==
    \/ Tick
    \/ AddUrl
    \/ \E id \in VideoIds, u \in VideoUpdateInputs : UpdateStatus(id, u[1], u[2])
    \/ \E id \in VideoIds : IncrementRetryCount(id)
    \/ CreateTask
    \/ \E id \in TaskIds, u \in TaskUpdateInputs :
          UpdateTaskStatus(id, u[1], u[2], u[3])
    \/ \E id \in TaskIds : IncrementTaskRetryCount(id)
    \/ \E id \in TaskIds : CancelTask(id)

SpecRepo == Init /\ [][RepoNext]_vars

(* Every operation of the two repositories on one item and one task, with  *)
(* few arguments each: progress below 0, in range and above 1.             *)
EntityVideoInputs ==
    {<<"analyzed", NoMessage>>, <<"failed", "boom">>, <<RawAnalyzed, NoMessage>>}

EntityTaskInputs ==
    {<<"running", NoMessage, "null">>, <<"failed", "boom", "null">>,
     <<RawAnalyzed, NoMessage, "null">>}

ProgressInputs == {0 - 5, 5, ProgressOne + 5}

EntityNext ==
    \/ Tick
    \/ AddUrl
    \/ \E u \in EntityVideoInputs : UpdateStatus(1, u[1], u[2])
    \/ UpdateAnalysisData(1, "scenes")
    \/ IncrementRetryCount(1)
    \/ CreateTask
    \/ \E u \in EntityTaskInputs : UpdateTaskStatus(1, u[1], u[2], u[3])
    \/ \E p \in ProgressInputs : UpdateProgress(1, p)
    \/ IncrementTaskRetryCount(1)
    \/ CancelTask(1)

SpecEntity == Init /\ [][EntityNext]_vars

(* analyze_video_by_id among the calls that prepare its input.             *)
AnalysisNext ==
    \/ Tick
    \/ AddUrl
    \/ \E id \in VideoIds, u \in VideoUpdateInputs : UpdateStatus(id, u[1], u[2])
    \/ \E id \in VideoIds : AnalyzeBegin(id)
    \/ AnalyzeReturns
    \/ AnalyzeRaises
    \/ SessionCommit
    \/ SessionRollback

SpecAnalysis == Init /\ [][AnalysisNext]_vars

(***************************************************************************)
(* Two processes writing the queue file.  Each call of add_to_queue and    *)
(* update_entry_status reads the whole file, changes its copy and writes   *)
(* the whole copy back; nothing in the code holds a lock between the two.  *)
(***************************************************************************)
Writers == {1, 2}

IdleWriter == [pc |-> "idle", q |-> <<>>, op |-> "", a |-> "", b |-> <<>>]

(* queue = self._load_queue() of add_to_queue                              *)
AddLoads(w, platform) ==
    /\ writers[w].pc = "idle"
    /\ serial => \A v \in Writers : writers[v].pc = "idle"
    /\ Counted
    /\ writers' = [writers EXCEPT ![w] =
                     [pc |-> "loaded", q |-> LoadQueue(queue),
                      op |-> "add_to_queue", a |-> platform, b |-> <<>>]]
    /\ UNCHANGED <<queue, clock, ret, acked, serial, rvars, pvars, qvars>>

(* the entry is built and appended, the copy saved, the id returned        *)
AddSaves(w) ==
    /\ writers[w].pc = "loaded"
    /\ writers[w].op = "add_to_queue"
    /\ queue' = SaveQueue(AddEntry(writers[w].q, writers[w].a, NoTime, 5, clock))
    /\ acked' = [acked EXCEPT !.ids = @ \cup {EntryId(writers[w].a, clock)}]
    /\ writers' = [writers EXCEPT ![w] = IdleWriter]
    /\ UNCHANGED <<clock, ret, calls, serial, rvars, pvars, qvars>>

(* queue = self._load_queue() of update_entry_status                       *)
UpdateLoads(w, id, status) ==
    /\ writers[w].pc = "idle"
    /\ serial => \A v \in Writers : writers[v].pc = "idle"
    /\ Counted
    /\ writers' = [writers EXCEPT ![w] =
                     [pc |-> "loaded", q |-> LoadQueue(queue),
                      op |-> "update_entry_status", a |-> status, b |-> id]]
    /\ UNCHANGED <<queue, clock, ret, acked, serial, rvars, pvars, qvars>>

(* the entry is changed in the copy, the copy saved, the call returns      *)
UpdateSaves(w) ==
    /\ writers[w].pc = "loaded"
    /\ writers[w].op = "update_entry_status"
    /\ queue' = SaveQueue(UpdateEntry(writers[w].q, writers[w].b, writers[w].a,
                                      NoMessage, clock))
    /\ acked' = IF FirstWithId(writers[w].q, writers[w].b) = 0 THEN acked
                ELSE [acked EXCEPT !.status =
                        {x \in @ : x[1] # writers[w].b}
                            \cup {<<writers[w].b, writers[w].a>>}]
    /\ writers' = [writers EXCEPT ![w] = IdleWriter]
    /\ UNCHANGED <<clock, ret, calls, serial, rvars, pvars, qvars>>

(* Either nothing orders the two processes, or each call runs from its     *)
(* load to its save with no other call in between.                         *)
RaceInit ==
    /\ Start
    /\ daily_limit = DefaultDailyLimit
    /\ optimal_times = DefaultOptimalTimes

RaceNext ==
    \/ Tick
    \/ \E w \in Writers, p \in Platforms : AddLoads(w, p)
    \/ \E w \in Writers : AddSaves(w)
    \/ \E w \in Writers, id \in KnownIds, st \in QueueStatuses :
          UpdateLoads(w, id, st)
    \/ \E w \in Writers : UpdateSaves(w)

SpecRace == RaceInit /\ [][RaceNext]_vars

(***************************************************************************)
(* Properties of the publish queue.                                        *)
(***************************************************************************)
Entries == 1..Len(queue)

Returned == {ret.ids[k] : k \in 1..Len(ret.ids)}

Pos(i) == CHOOSE k \in 1..Len(ret.ids) : ret.ids[k] = i

ReadyCall == ret.op = "get_ready_uploads"

(* Readiness as the contract words it.                                     *)
Due(e, now) ==
    \/ ~e.scheduled_time.has
    \/ FromIso(e.scheduled_time.iso) <= now

Wanted(e) ==
    /\ e.status = "queued"
    /\ Due(e, ret.now)
    /\ (ret.platform = NoFilter \/ e.platform = ret.platform)

(* C1: get_ready_uploads without a limit returns exactly the entries that  *)
(* are queued, due at the time of the call and on the filtered platform:   *)
(* none of them is left out and no other entry is returned.                *)
C1_ReadyExact ==
    (ReadyCall /\ ret.limit = NoLimit) =>
        /\ ret.outcome = "ok"
        /\ Returned = {i \in Entries : Wanted(queue[i])}

(* C2: get_ready_uploads succeeds and its result is ordered by priority    *)
(* descending and, within one priority, unscheduled entries first and then *)
(* scheduled entries by ascending scheduled time.                          *)
C2_ReadyOrdered ==
    ReadyCall =>
        /\ ret.outcome = "ok"
        /\ \A k, l \in 1..Len(ret.ids) :
              LET a == queue[ret.ids[k]]
                  b == queue[ret.ids[l]]
              IN  k < l =>
                    /\ a.priority >= b.priority
                    /\ a.priority = b.priority =>
                          \/ ~a.scheduled_time.has
                          \/ /\ b.scheduled_time.has
                             /\ FromIso(a.scheduled_time.iso)
                                    <= FromIso(b.scheduled_time.iso)

(* C3: of two ready entries with the same priority and the same scheduled  *)
(* time (or both unscheduled), the one enqueued first comes first in the   *)
(* result of get_ready_uploads.                                            *)
C3_ReadyStable ==
    (ReadyCall /\ ret.limit = NoLimit) =>
        \A i, j \in Entries :
            (/\ i < j
             /\ Wanted(queue[i]) /\ Wanted(queue[j])
             /\ queue[i].priority = queue[j].priority
             /\ queue[i].scheduled_time = queue[j].scheduled_time)
                => /\ ret.outcome = "ok"
                   /\ i \in Returned /\ j \in Returned
                   /\ Pos(i) < Pos(j)

(* C4: the ids of the entries in the queue are pairwise distinct.          *)
C4_UniqueIds ==
    \A i, j \in Entries : i # j => queue[i].id # queue[j].id

(* A step that keeps the length of the queue keeps every entry in place.   *)
SameLength == Len(queue') = Len(queue)

AllowedMoves ==
    {<<"queued", "uploading">>, <<"uploading", "completed">>,
     <<"uploading", "failed">>, <<"failed", "queued">>}

(* C5 as stated: the status of an entry changes only along queued ->       *)
(* uploading, uploading -> completed, uploading -> failed and failed ->    *)
(* queued, and is always one of queued, uploading, completed, failed.      *)
C5_TransitionGraph ==
    [][/\ \A i \in 1..Len(queue') : queue'[i].status \in QueueStatuses
       /\ SameLength =>
             \A i \in Entries :
                 \/ queue'[i].status = queue[i].status
                 \/ <<queue[i].status, queue'[i].status>> \in AllowedMoves]_vars

(* C5 amended: the status of an entry changes only in update_entry_status, *)
(* which stores the status it is given whatever the current status is, so  *)
(* any of the four statuses can follow any other; with the four documented *)
(* statuses as arguments no entry holds a status outside them.             *)
C5_StatusSetByUpdate ==
    [][/\ \A i \in 1..Len(queue') : queue'[i].status \in QueueStatuses
       /\ ret'.op = "update_entry_status" =>
             \A id \in KnownIds : FirstWithId(queue, id) # 0 =>
                 \A u \in UpdateInputs : UpdateEntryStatus(id, u[1], u[2])
                     => queue'[FirstWithId(queue, id)].status = u[1]
       /\ SameLength =>
             \A i \in Entries :
                 queue'[i].status # queue[i].status =>
                     \E id \in KnownIds, u \in UpdateInputs :
                         /\ i = FirstWithId(queue, id)
                         /\ UpdateEntryStatus(id, u[1], u[2])
       /\ ~SameLength =>
             \A i \in 1..Len(queue') :
                 \/ \E j \in Entries : queue[j] = queue'[i]
                 \/ queue'[i].status = "queued"]_vars

(* An entry that was set to completed without ever having been uploading. *)
C5_Witness ==
    \E i \in Entries :
        /\ queue[i].status = "completed"
        /\ ~queue[i].started_at.has

(* C8: update_entry_status with a non-empty error message stores it as     *)
(* last_error and adds one to attempts whatever the target status; without *)
(* one it leaves attempts and last_error alone; attempts never decreases.  *)
C8_AttemptsCountErrors ==
    [][/\ ret'.op = "update_entry_status" =>
             \A id \in KnownIds : FirstWithId(queue, id) # 0 =>
                 \A u \in UpdateInputs : UpdateEntryStatus(id, u[1], u[2]) =>
                     LET i == FirstWithId(queue, id)
                     IN  IF u[2] \notin {NoMessage, ""}
                         THEN /\ queue'[i].last_error = u[2]
                              /\ queue'[i].attempts = queue[i].attempts + 1
                         ELSE /\ queue'[i].last_error = queue[i].last_error
                              /\ queue'[i].attempts = queue[i].attempts
       /\ SameLength =>
             \A i \in Entries : queue'[i].attempts >= queue[i].attempts
       /\ ~SameLength =>
             \A i \in 1..Len(queue') :
                 \/ \E j \in Entries : queue[j] = queue'[i]
                 \/ queue'[i].attempts = 0]_vars

(* An update to completed that carried an error message.                  *)
C8_Witness ==
    /\ ret.op = "update_entry_status"
    /\ \E i \in Entries :
          /\ queue[i].status = "completed"
          /\ queue[i].attempts = 1
          /\ queue[i].last_error = "boom"

(* C10: cleanup_completed(days) removes exactly the completed entries      *)
(* whose completed_at is strictly earlier than now - days; a completed     *)
(* entry at or after that cutoff, or without completed_at, stays.          *)
RemovedByContract(e, days, now) ==
    /\ e.status = "completed"
    /\ e.completed_at.has
    /\ FromIso(e.completed_at.iso) < now - Timedelta(days)

C10_CleanupCutoff ==
    [][(ret'.op = "cleanup_completed" /\ calls' = calls + 1) =>
          queue' = SelectSeq(queue,
                     LAMBDA e : ~RemovedByContract(e, ret'.limit, clock))]_vars

(* C11: cleanup_completed never removes or changes an entry that is        *)
(* queued, uploading or failed, however old its timestamps are, and what   *)
(* it keeps stays as it was, field by field and in the same order.         *)
C11_CleanupFrame ==
    [][(ret'.op = "cleanup_completed" /\ calls' = calls + 1) =>
          /\ \A i \in Entries :
                queue[i].status # "completed" =>
                    \E j \in 1..Len(queue') : queue'[j] = queue[i]
          /\ queue' = SelectSeq(queue,
                        LAMBDA e : \E j \in 1..Len(queue') : queue'[j] = e)]_vars

(* cleanup_completed has returned and a failed entry whose completed_at is *)
(* before the cutoff of that call is still in the queue.                   *)
C11_Witness ==
    /\ ret.op = "cleanup_completed"
    /\ \E i \in Entries :
          /\ queue[i].status = "failed"
          /\ queue[i].completed_at.has
          /\ FromIso(queue[i].completed_at.iso) < ret.now - Timedelta(ret.limit)

(* C14: update_entry_status with an id that no entry has returns without   *)
(* an error and leaves the queue file as it was: same entries, same field  *)
(* values, same order.                                                     *)
C14_UnknownIdNoOp ==
    [][(/\ ret'.op = "update_entry_status"
        /\ calls' = calls + 1
        /\ FirstWithId(queue, ret'.ids[1]) = 0) =>
           (queue' = queue /\ ret'.outcome = "ok")]_vars

(* update_entry_status has returned for an id that no entry of a non-empty *)
(* queue has.                                                              *)
C14_Witness ==
    /\ ret.op = "update_entry_status"
    /\ ret.outcome = "ok"
    /\ Len(queue) > 0
    /\ FirstWithId(queue, ret.ids[1]) = 0

(* C15: update_entry_status stamps started_at with the time of the call    *)
(* when it sets uploading and completed_at when it sets completed or       *)
(* failed; so every uploading entry has a started_at and every completed   *)
(* or failed entry has a completed_at.                                     *)
C15_TimestampsFollowStatus ==
    [][/\ \A i \in 1..Len(queue') :
             /\ queue'[i].status = "uploading" => queue'[i].started_at.has
             /\ queue'[i].status \in {"completed", "failed"}
                    => queue'[i].completed_at.has
       /\ (/\ ret'.op = "update_entry_status"
           /\ calls' = calls + 1
           /\ FirstWithId(queue, ret'.ids[1]) # 0) =>
              LET i == FirstWithId(queue, ret'.ids[1])
              IN  /\ queue'[i].status = "uploading"
                        => queue'[i].started_at = SomeTime(clock)
                  /\ queue'[i].status \in {"completed", "failed"}
                        => queue'[i].completed_at = SomeTime(clock)]_vars

(* An entry that went to uploading and then to failed, at a later time.    *)
C15_Witness ==
    \E i \in Entries :
        /\ queue[i].status = "failed"
        /\ queue[i].started_at.has
        /\ queue[i].completed_at.has
        /\ queue[i].started_at # queue[i].completed_at

(***************************************************************************)
(* Properties of the daily limit.                                          *)
(***************************************************************************)
(* C12: what check_daily_limit returns satisfies remaining = max(0, limit  *)
(* - used) and limit_reached = (remaining = 0): remaining is never         *)
(* negative and limit_reached holds exactly when used >= limit.            *)
C12_RemainingAndReached ==
    report.outcome = "ok" =>
        /\ report.used >= 0
        /\ report.remaining =
               (IF report.limit - report.used > 0
                THEN report.limit - report.used ELSE 0)
        /\ report.remaining >= 0
        /\ report.limit_reached = (report.remaining = 0)
        /\ report.limit_reached = (report.used >= report.limit)

(* Three uploads today under a limit of three: nothing remains.            *)
C12_Witness ==
    /\ report.outcome = "ok"
    /\ report.used = 3
    /\ report.limit = 3
    /\ report.remaining = 0
    /\ report.limit_reached

(* C13: for each platform argument and date, used is the number of publish *)
(* records of that platform that are published and whose published_at is   *)
(* in [start of the day, start of the day + 24h).                          *)
C13_UsedCountsPlatformDay ==
    ret.op = "check_daily_limit" =>
        /\ report.outcome = "ok"
        /\ report.used =
               Cardinality({i \in DOMAIN records :
                               /\ records[i].platform = report.platform
                               /\ records[i].is_published
                               /\ records[i].published_at >= report.start
                               /\ records[i].published_at
                                      < report.start + TicksPerDay})

(***************************************************************************)
(* schedule_batch_uploads                                                  *)
(***************************************************************************)
(* The length test as it would be if it never failed.                      *)
LengthsNeverDiffer(nfiles, nmeta) == FALSE

(* if len(video_files) != len(metadata_list): raise PublishingError        *)
LengthsDiffer(nfiles, nmeta) == nfiles # nmeta

(* The time of the i-th upload as it would be without the increment.       *)
BatchTimeFixed(start, i, interval_hours) == start

(* current_time after i rounds of current_time += timedelta(hours=...)     *)
BatchTime(start, i, interval_hours) == start + i * interval_hours

(* The loop over zip(video_files, metadata_list): one add_to_queue each.   *)
BatchEntries(n, platform, start, interval_hours, now) ==
    [i \in 1..n |->
        NewEntry(platform, SomeTime(BatchTime(start, i - 1, interval_hours)),
                 5, now)]

ScheduleBatchUploads(nfiles, nmeta, platform, start_time, interval_hours) ==
    LET n == Min(nfiles, nmeta)
        base == DateTimeOf(clock)
        mismatch == LengthsDiffer(nfiles, nmeta)
        noHour == ~start_time.has /\ NextTimeRaises(base, optimal_times)
        start == IF start_time.has THEN HoursOf(start_time.dt)
                 ELSE HoursOf(NextUploadTime(base, optimal_times))
        outcome == IF mismatch THEN "PublishingError"
                   ELSE IF noHour THEN "IndexError" ELSE "ok"
        added == IF outcome = "ok"
                 THEN BatchEntries(n, platform, start, interval_hours, clock)
                 ELSE <<>>
    IN  /\ calls + Len(added) <= MaxCalls
        /\ calls' = calls + Len(added)
        /\ queue' = IF added = <<>> THEN queue
                    ELSE SaveQueue(LoadQueue(queue) \o added)
        /\ batch' = [outcome |-> outcome, files |-> nfiles,
                     metadata |-> nmeta, platform |-> platform,
                     start |-> start_time, hours |-> interval_hours,
                     ids |-> [i \in 1..Len(added) |-> added[i].id]]
        /\ ret' = [op |-> "schedule_batch_uploads", outcome |-> outcome,
                   ids |-> <<>>, now |-> clock, platform |-> platform,
                   limit |-> 0]
        /\ UNCHANGED <<clock, rvars, wvars, pvars, optimal_times, next_time,
                       stats, filtered, dispatchers, uploads>>

BatchStarts ==
    {NoBase, SomeBase(DateTime(0, 10, 0)), SomeBase(DateTime(1, 2, 0))}

(* Equal lengths 0..2 from each start, a different platform and interval,  *)
(* and the two ways the lengths can differ.                                *)
BatchInputs ==
    {<<n, n, "youtube", st, 4>> : n \in 0..2, st \in BatchStarts}
        \cup {<<2, 2, "tiktok", SomeBase(DateTime(0, 10, 0)), 1>>,
              <<2, 1, "youtube", SomeBase(DateTime(0, 10, 0)), 4>>,
              <<1, 2, "tiktok", NoBase, 4>>}

BatchInit ==
    /\ Start
    /\ serial = TRUE
    /\ daily_limit = DefaultDailyLimit
    /\ optimal_times \in {DefaultOptimalTimes, <<>>}

BatchNext ==
    \/ Tick
    \/ AddToQueue("youtube", NoTime, 8)
    \/ \E b \in BatchInputs :
          ScheduleBatchUploads(b[1], b[2], b[3], b[4], b[5])

SpecBatch == BatchInit /\ [][BatchNext]_vars

(***************************************************************************)
(* get_queue_statistics                                                    *)
(***************************************************************************)
ZeroCounts == [st \in QueueStatuses |-> 0]

(* stats before the loop                                                   *)
EmptyStats(q) ==
    [outcome |-> "ok", total |-> Len(q), counts |-> ZeroCounts,
     by_platform |-> [p \in {} |-> ZeroCounts]]

(* if platform not in stats['by_platform']: ... = {four zero counts}       *)
WithPlatform(by_platform, platform) ==
    [p \in DOMAIN by_platform \cup {platform} |->
        IF p \in DOMAIN by_platform THEN by_platform[p] ELSE ZeroCounts]

(* The per-platform step as it would be without the increment.             *)
BumpPlatformCreatedOnly(by_platform, platform, status) ==
    WithPlatform(by_platform, platform)

(* stats['by_platform'][platform][status] = ....get(status, 0) + 1         *)
BumpPlatform(by_platform, platform, status) ==
    [WithPlatform(by_platform, platform) EXCEPT ![platform][status] = @ + 1]

(* One round of the loop over the entries.                                 *)
BumpStats(s, e) ==
    [s EXCEPT !.counts[e.status] = @ + 1,
              !.by_platform = BumpPlatform(@, e.platform, e.status)]

RECURSIVE TallyEntries(_, _)
TallyEntries(q, s) ==
    IF q = <<>> THEN s ELSE TallyEntries(Tail(q), BumpStats(s, Head(q)))

GetQueueStatistics ==
    LET q == LoadQueue(queue)
    IN  /\ stats' = TallyEntries(q, EmptyStats(q))
        /\ ret' = [op |-> "get_queue_statistics", outcome |-> "ok",
                   ids |-> <<>>, now |-> clock, platform |-> "",
                   limit |-> 0]
        /\ UNCHANGED <<queue, clock, calls, rvars, wvars, pvars,
                       optimal_times, next_time, batch, filtered,
                       dispatchers, uploads>>

(* Entries of either platform, unscheduled or already due, all with the    *)
(* default priority.                                                       *)
StatsAddInputs ==
    {<<"youtube", NoTime, 5>>, <<"tiktok", NoTime, 5>>,
     <<"youtube", SomeTime(0), 5>>}

StatsNext ==
    \/ Tick
    \/ \E a \in StatsAddInputs : AddToQueue(a[1], a[2], a[3])
    \/ GetReadyUploads(NoLimit, NoFilter)
    \/ \E id \in KnownIds, st \in QueueStatuses :
          UpdateEntryStatus(id, st, NoMessage)
    \/ GetQueueStatistics

SpecStats == Init /\ [][StatsNext]_vars

(***************************************************************************)
(* YouTubeMonitor: parse_duration, is_short, filter_videos                 *)
(***************************************************************************)
(* contentDetails.duration: ISO 8601 text of minutes and seconds, or text  *)
(* that isodate cannot parse.                                              *)
BadDuration == [parses |-> FALSE, minutes |-> 0, seconds |-> 0]
IsoDuration(minutes, seconds) ==
    [parses |-> TRUE, minutes |-> minutes, seconds |-> seconds]

(* isodate.parse_duration(...).total_seconds(); 0 on any exception         *)
ParseDuration(duration_iso) ==
    IF ~duration_iso.parses THEN 0
    ELSE duration_iso.minutes * 60 + duration_iso.seconds

DefaultMaxDuration == 60

(* The duration test as it would be with an exclusive ceiling.             *)
IsShortBelowCeiling(video, max_duration) ==
    LET seconds == ParseDuration(video.duration)
    IN  0 < seconds /\ seconds < max_duration

(* return 0 < seconds <= max_duration                                      *)
IsShort(video, max_duration) ==
    LET seconds == ParseDuration(video.duration)
    IN  0 < seconds /\ seconds <= max_duration

(* snippet.categoryId, statistics.viewCount: absent keys                   *)
NoCategory == "<None>"
NoViewCount == 0 - 1

(* int(video['statistics'].get('viewCount', 0))                            *)
ViewCount(video) ==
    IF video.view_count = NoViewCount THEN 0 ELSE video.view_count

(* Times of publication are minutes on the clock's axis;                   *)
(* hours_since_published = (now - published_at).total_seconds() / 3600 is  *)
(* kept as the whole number of minutes it is.                              *)
MinutesSincePublished(video, now) == now * 60 - video.published_at

(* The age test as it would be with an inclusive upper end.                *)
AgeExcludedAboveMax(minutes, max_age_hours) ==
    minutes > max_age_hours * 60 \/ minutes <= 0

(* hours_since_published >= max_age_hours or hours_since_published <= 0    *)
AgeExcluded(minutes, max_age_hours) ==
    minutes >= max_age_hours * 60 \/ minutes <= 0

(* vph = view_count / hours_since_published; vph < min_vph                 *)
LowVph(view_count, minutes, min_vph) ==
    view_count * 60 < min_vph * minutes

Kept(video, max_age_hours, min_vph, now) ==
    /\ video.category_id # "10"
    /\ IsShort(video, DefaultMaxDuration)
    /\ ~AgeExcluded(MinutesSincePublished(video, now), max_age_hours)
    /\ ~LowVph(ViewCount(video), MinutesSincePublished(video, now), min_vph)

(* video_data                                                              *)
VideoData(video, now) ==
    [video_id |-> video.id,
     views |-> ViewCount(video),
     vph |-> (ViewCount(video) * 60) \div MinutesSincePublished(video, now),
     published_at |-> video.published_at,
     duration |-> ParseDuration(video.duration)]

RECURSIVE FilteredVideos(_, _, _, _)
FilteredVideos(list, max_age_hours, min_vph, now) ==
    IF list = <<>> THEN <<>>
    ELSE LET rest == FilteredVideos(Tail(list), max_age_hours, min_vph, now)
         IN  IF Kept(Head(list), max_age_hours, min_vph, now)
             THEN <<VideoData(Head(list), now)>> \o rest
             ELSE rest

FilterVideos(list, max_age_hours, min_vph) ==
    /\ filtered' = [outcome |-> "ok", videos |-> list,
                    max_age_hours |-> max_age_hours, min_vph |-> min_vph,
                    now |-> clock,
                    kept |-> FilteredVideos(list, max_age_hours, min_vph,
                                            clock)]
    /\ ret' = [op |-> "filter_videos", outcome |-> "ok", ids |-> <<>>,
               now |-> clock, platform |-> "", limit |-> 0]
    /\ UNCHANGED <<queue, clock, calls, rvars, wvars, pvars,
                   optimal_times, next_time, stats, batch,
                   dispatchers, uploads>>

Video(id, category_id, duration, published_at, view_count) ==
    [id |-> id, category_id |-> category_id, duration |-> duration,
     published_at |-> published_at, view_count |-> view_count]

(* Durations around the ceiling; publication 50 h, 48 h, just under 48 h   *)
(* and 2 h before the clock's start, at it, and an hour after it; view     *)
(* counts around 10000 an hour for a two-hour-old video.                   *)
Durations ==
    {BadDuration, IsoDuration(0, 0), IsoDuration(0, 59), IsoDuration(1, 0),
     IsoDuration(1, 1), IsoDuration(1, 30)}
PublishedAts == {0 - 3000, 0 - 2880, 0 - 2879, 0 - 120, 0, 60}
ViewCounts == {NoViewCount, 19999, 20000}

FetchedLists ==
    {<<Video(1, "22", d, p, v)>> :
        d \in Durations, p \in PublishedAts, v \in ViewCounts}
    \cup {<<Video(1, c, IsoDuration(0, 59), 0 - 120, 20000)>> :
             c \in {"10", NoCategory}}
    \cup {<<Video(1, "22", IsoDuration(1, 0), 0 - 120, 20000),
            Video(2, "10", IsoDuration(0, 59), 0 - 120, 20000),
            Video(3, "22", IsoDuration(0, 59), 0 - 2879, 20000)>>}

FilterParameters == {<<48, 0>>, <<48, 10000>>, <<2, 10000>>}

FilterNext ==
    \/ Tick
    \/ \E l \in FetchedLists, a \in FilterParameters :
          FilterVideos(l, a[1], a[2])

SpecFilter == Init /\ [][FilterNext]_vars

(***************************************************************************)
(* The queue next to the publish records: every queue operation, uploads   *)
(* being recorded, and the daily limit being asked for.                    *)
(***************************************************************************)
AdvisoryAddInputs ==
    {<<"youtube", NoTime, 5>>, <<"youtube", SomeTime(0), 5>>}

(* daily_upload_limit: 1                                                   *)
AdvisoryInit ==
    /\ PublishInit
    /\ daily_limit = 1

AdvisoryNext ==
    \/ Tick
    \/ \E a \in AdvisoryAddInputs : AddToQueue(a[1], a[2], a[3])
    \/ GetReadyUploads(NoLimit, "youtube")
    \/ \E id \in KnownIds : UpdateEntryStatus(id, "completed", NoMessage)
    \/ \E id \in KnownIds : RemoveFromQueue(id)
    \/ CleanupCompleted(0)
    \/ GetQueueStatistics
    \/ RecordUploadToDatabase
    \/ CheckDailyLimit("youtube", NoDate)

SpecAdvisory == AdvisoryInit /\ [][AdvisoryNext]_vars

(***************************************************************************)
(* Every queue operation, on entries that are left uploading or failed.    *)
(***************************************************************************)
FrameAddInputs ==
    {<<"youtube", NoTime, 5>>, <<"tiktok", SomeTime(1), 8>>}

FrameNext ==
    \/ Tick
    \/ \E a \in FrameAddInputs : AddToQueue(a[1], a[2], a[3])
    \/ GetReadyUploads(NoLimit, NoFilter)
    \/ \E id \in KnownIds, st \in {"uploading", "completed", "failed"} :
          UpdateEntryStatus(id, st, NoMessage)
    \/ \E id \in KnownIds : RemoveFromQueue(id)
    \/ CleanupCompleted(0)
    \/ GetQueueStatistics

SpecFrame == Init /\ [][FrameNext]_vars

(***************************************************************************)
(* The dispatcher: the caller of the queue that uploads what is ready. For *)
(* each entry taken from get_ready_uploads it calls update_entry_status    *)
(* (uploading), invokes the uploader once, and calls update_entry_status   *)
(* (completed or failed). It knows an entry by the id the queue gave it.   *)
(***************************************************************************)
MaxRounds == 2

Dispatchers == {1, 2}

UploadsOf(i) == IF i \in DOMAIN uploads THEN uploads[i] ELSE 0

(* ready = scheduler.get_ready_uploads()                                   *)
DispatcherPolls(d) ==
    LET q == LoadQueue(queue)
        ready == ReadyIdx(q, NoFilter, clock)
        raises == SortRaises(q, ready)
        todo == IF raises THEN <<>> ELSE SortIdx(q, ready)
    IN  /\ dispatchers[d].pc = "idle"
        /\ dispatchers[d].rounds < MaxRounds
        /\ dispatchers' =
              [dispatchers EXCEPT ![d] =
                  [pc |-> IF todo = <<>> THEN "idle" ELSE "mark",
                   todo |-> todo, rounds |-> @.rounds + 1]]
        /\ ret' = [op |-> "get_ready_uploads",
                   outcome |-> IF raises THEN "TypeError" ELSE "ok",
                   ids |-> todo, now |-> clock, platform |-> NoFilter,
                   limit |-> NoLimit]
        /\ UNCHANGED <<queue, clock, calls, rvars, wvars, pvars,
                       optimal_times, next_time, stats, batch, filtered,
                       uploads>>

(* scheduler.update_entry_status(entry['id'], 'uploading')                 *)
DispatcherMarks(d) ==
    LET id == queue[Head(dispatchers[d].todo)].id
    IN  /\ dispatchers[d].pc = "mark"
        /\ queue' = SaveQueue(UpdateEntry(LoadQueue(queue), id, "uploading",
                                          NoMessage, clock))
        /\ dispatchers' = [dispatchers EXCEPT ![d].pc = "upload"]
        /\ ret' = [op |-> "update_entry_status", outcome |-> "ok",
                   ids |-> <<id>>, now |-> clock, platform |-> "",
                   limit |-> 0]
        /\ UNCHANGED <<clock, calls, rvars, wvars, pvars,
                       optimal_times, next_time, stats, batch, filtered,
                       uploads>>

(* uploader.upload_video(entry['video_file_path'], entry['metadata'])      *)
DispatcherUploads(d) ==
    LET i == Head(dispatchers[d].todo)
    IN  /\ dispatchers[d].pc = "upload"
        /\ uploads' = [j \in DOMAIN uploads \cup {i} |->
                          IF j = i THEN UploadsOf(i) + 1 ELSE uploads[j]]
        /\ dispatchers' = [dispatchers EXCEPT ![d].pc = "report"]
        /\ ret' = [op |-> "upload_video", outcome |-> "ok",
                   ids |-> <<queue[i].id>>, now |-> clock,
                   platform |-> queue[i].platform, limit |-> 0]
        /\ UNCHANGED <<queue, clock, calls, rvars, wvars, pvars,
                       optimal_times, next_time, stats, batch, filtered>>

(* scheduler.update_entry_status(entry['id'], 'completed') or              *)
(* scheduler.update_entry_status(entry['id'], 'failed', str(error))        *)
DispatcherReports(d, status) ==
    LET id == queue[Head(dispatchers[d].todo)].id
        rest == Tail(dispatchers[d].todo)
    IN  /\ dispatchers[d].pc = "report"
        /\ queue' = SaveQueue(UpdateEntry(LoadQueue(queue), id, status,
                                          IF status = "failed" THEN "boom"
                                          ELSE NoMessage,
                                          clock))
        /\ dispatchers' =
              [dispatchers EXCEPT ![d].todo = rest,
                                  ![d].pc = IF rest = <<>> THEN "idle"
                                            ELSE "mark"]
        /\ ret' = [op |-> "update_entry_status", outcome |-> "ok",
                   ids |-> <<id>>, now |-> clock, platform |-> "",
                   limit |-> 0]
        /\ UNCHANGED <<clock, calls, rvars, wvars, pvars,
                       optimal_times, next_time, stats, batch, filtered,
                       uploads>>

DispatcherSteps(d) ==
    \/ DispatcherPolls(d)
    \/ DispatcherMarks(d)
    \/ DispatcherUploads(d)
    \/ \E st \in {"completed", "failed"} : DispatcherReports(d, st)

(* One dispatcher, and entries added while it works.                       *)
DispatchNext ==
    \/ Tick
    \/ \E p \in Platforms : AddToQueue(p, NoTime, 5)
    \/ DispatcherSteps(1)

SpecDispatch == Init /\ [][DispatchNext]_vars

(* Two dispatchers on the same queue file.                                 *)
TwoDispatchNext ==
    \/ AddToQueue("youtube", NoTime, 5)
    \/ \E d \in Dispatchers :
          \/ DispatcherPolls(d)
          \/ DispatcherMarks(d)
          \/ DispatcherUploads(d)
          \/ DispatcherReports(d, "completed")

SpecTwoDispatch == Init /\ [][TwoDispatchNext]_vars

(***************************************************************************)
(* Every status as the target of update_status, and the analysis started   *)
(* on a row in any status.                                                 *)
(***************************************************************************)
TransitionNext ==
    \/ AddUrl
    \/ \E st \in VideoStatuses : UpdateStatus(1, st, NoMessage)
    \/ AnalyzeBegin(1)
    \/ AnalyzeReturns
    \/ AnalyzeRaises
    \/ SessionCommit
    \/ SessionRollback

SpecTransition == Init /\ [][TransitionNext]_vars

(***************************************************************************)
(* add_to_queue with the priorities a caller can pass: --priority takes    *)
(* any int.                                                                *)
(***************************************************************************)
CallerPriorities == {0 - 3, 0, 1, 5, 10, 11}

PriorityNext ==
    \/ Tick
    \/ \E pr \in CallerPriorities : AddToQueue("youtube", NoTime, pr)
    \/ GetReadyUploads(NoLimit, NoFilter)

SpecPriority == Init /\ [][PriorityNext]_vars

(***************************************************************************)
(* Discovery: YouTubeMonitor.discover_and_save and                         *)
(* ManualInput.add_single_url, which insert an item only after             *)
(* VideoRepository.exists_by_video_id has found none with the video id.    *)
(***************************************************************************)

(* The 11-character video ids of the videos met.                           *)
VideoKeys == {"a", "b", "c"}

(* VideoRepository.add_url with the video_id column written out.           *)
DiscoveredVideo(video_id, now) == [video_id |-> video_id] @@ NewVideo(now)

(* exists_by_video_id as it would be if it looked at the newest row only.  *)
ExistsAsNewestRow(rows, video_id) ==
    rows # <<>> /\ rows[Len(rows)].video_id = video_id

(* select(VideoURL).where(VideoURL.video_id == video_id) ... .first(); the *)
(* rows add_url has flushed in the same session are seen.                  *)
ExistsByVideoId(rows, video_id) ==
    \E i \in DOMAIN rows : rows[i].video_id = video_id

(* The loop of discover_and_save over viral_videos: the rows after it and  *)
(* new_count.                                                              *)
RECURSIVE SaveNew(_, _, _, _)
SaveNew(rows, viral_videos, new_count, now) ==
    IF viral_videos = <<>> THEN [rows |-> rows, new_count |-> new_count]
    ELSE IF ~ExistsByVideoId(rows, Head(viral_videos))
         THEN SaveNew(Append(rows, DiscoveredVideo(Head(viral_videos), now)),
                      Tail(viral_videos), new_count + 1, now)
         ELSE SaveNew(rows, Tail(viral_videos), new_count, now)

(* One run, in one session committed at its end; ret.ids holds the         *)
(* returned new_count.                                                     *)
DiscoverAndSave(viral_videos) ==
    LET saved == SaveNew(videos, viral_videos, 0, clock)
    IN  /\ pc = "idle"
        /\ CountedRepo
        /\ videos' = saved.rows
        /\ ret' = RepoRet("discover_and_save", "ok", saved.new_count)
        /\ UNCHANGED <<wvars, queue, clock, tasks, sess, pc, pvars, qvars>>

(* The URLs a caller types: the Shorts form, the watch form, and a URL of  *)
(* another site.                                                           *)
ShortsUrl(video_id) == [host |-> "youtube.com", form |-> "shorts", id |-> video_id]
WatchUrl(video_id) == [host |-> "youtube.com", form |-> "watch", id |-> video_id]
OtherSiteUrl == [host |-> "example.com", form |-> "watch", id |-> "a"]

(* URLValidator.validate_and_extract: URLValidationError unless the host   *)
(* is YouTube's, else the id matched by the Shorts or the watch pattern.   *)
UrlRaises(url) == url.host # "youtube.com"
ExtractVideoId(url) == url.id

(* add_single_url: True when added, False when the id is already there.    *)
AddSingleUrl(url) ==
    LET video_id == ExtractVideoId(url)
        exists == ExistsByVideoId(videos, video_id)
    IN  /\ pc = "idle"
        /\ CountedRepo
        /\ videos' = IF UrlRaises(url) \/ exists THEN videos
                     ELSE Append(videos, DiscoveredVideo(video_id, clock))
        /\ ret' = RepoRet("add_single_url",
                          IF UrlRaises(url) THEN "raised"
                          ELSE IF exists THEN "false" ELSE "true",
                          IF UrlRaises(url) \/ exists THEN 0 ELSE Len(videos) + 1)
        /\ UNCHANGED <<wvars, queue, clock, tasks, sess, pc, pvars, qvars>>

(* What filter_videos hands to the loop, in descending vph order.          *)
ViralLists ==
    {<<>>, <<"a">>, <<"b">>, <<"a", "b">>, <<"b", "c">>, <<"c", "c">>}

ManualUrls == {ShortsUrl("a"), WatchUrl("a"), WatchUrl("b"), OtherSiteUrl}

(* Discovery runs and manual additions one after another, with the items'  *)
(* status moving on in between.                                            *)
DiscoverNext ==
    \/ Tick
    \/ \E viral_videos \in ViralLists : DiscoverAndSave(viral_videos)
    \/ \E url \in ManualUrls : AddSingleUrl(url)
    \/ \E id \in VideoIds : UpdateStatus(id, "analyzing", NoMessage)

SpecDiscover == Init /\ [][DiscoverNext]_vars

(***************************************************************************)
(* The queue read with each limit the "ready" command can pass: none or 0, *)
(* one below and one above the number of entries the budget allows.        *)
(***************************************************************************)
LimitAddInputs ==
    {<<"youtube", NoTime, 5>>, <<"youtube", NoTime, 8>>,
     <<"youtube", SomeTime(0), 5>>}

ReadyLimits == {NoLimit, 1, 2}

LimitNext ==
    \/ Tick
    \/ \E a \in LimitAddInputs : AddToQueue(a[1], a[2], a[3])
    \/ \E limit \in ReadyLimits : GetReadyUploads(limit, NoFilter)
    \/ \E id \in KnownIds : UpdateEntryStatus(id, "completed", NoMessage)

SpecLimit == Init /\ [][LimitNext]_vars

(***************************************************************************)
(* The default hour list: get_next_upload_time from each base time, and    *)
(* schedule_batch_uploads left to pick its own start, with the intervals   *)
(* an int argument can carry: negative, zero, the default.                 *)
(***************************************************************************)
FutureIntervals == {0 - 12, 0, 4}

(* Base times before, at and after the first and the last listed hour.     *)
FutureBaseTimes ==
    {NoBase} \cup
    {SomeBase(DateTime(0, h, m)) : h \in {8, 9, 21, 23}, m \in {0, 30}}

FutureNext ==
    \/ Tick
    \/ AddToQueue("youtube", NoTime, 8)
    \/ \E b \in FutureBaseTimes : GetNextUploadTime("youtube", b)
    \/ \E n \in 1..2, interval_hours \in FutureIntervals :
          ScheduleBatchUploads(n, n, "youtube", NoBase, interval_hours)
    \/ GetReadyUploads(NoLimit, NoFilter)

SpecFuture == Init /\ [][FutureNext]_vars

(***************************************************************************)
(* Properties of get_next_upload_time.                                     *)
(***************************************************************************)
HoursAfter(hour) ==
    {optimal_times[i] : i \in {j \in DOMAIN optimal_times :
                                    optimal_times[j] > hour}}

Smallest(S) == CHOOSE x \in S : \A y \in S : x <= y

Ascending(hours) ==
    \A i, j \in DOMAIN hours : i < j => hours[i] <= hours[j]

(* C24 as stated: for every base time and configured hour list the result  *)
(* is the base day at the smallest listed hour greater than the base hour, *)
(* minute zero, or the first listed hour of the next day when no listed    *)
(* hour is greater.                                                        *)
C24_SmallestLaterHour ==
    next_time.outcome # "none" =>
        /\ next_time.outcome = "ok"
        /\ IF HoursAfter(next_time.base.hour) # {}
           THEN next_time.result =
                    DateTime(next_time.base.day,
                             Smallest(HoursAfter(next_time.base.hour)), 0)
           ELSE next_time.result =
                    DateTime(next_time.base.day + 1, optimal_times[1], 0)

(* C24 as computed: the result is the base day at the first hour, in list  *)
(* order, that is greater than the base hour, minute zero: the smallest    *)
(* such hour when the list is ascending; when no listed hour is greater it *)
(* is the first listed hour of the next day, and IndexError when the list  *)
(* is empty.                                                               *)
C24_FirstLaterHourInListOrder ==
    next_time.outcome # "none" =>
        LET hour == next_time.base.hour
            later == {i \in DOMAIN optimal_times : optimal_times[i] > hour}
        IN  IF later # {}
            THEN /\ next_time.outcome = "ok"
                 /\ next_time.result =
                        DateTime(next_time.base.day,
                                 optimal_times[Smallest(later)], 0)
                 /\ Ascending(optimal_times) =>
                        next_time.result.hour = Smallest(HoursAfter(hour))
            ELSE IF optimal_times = <<>>
            THEN next_time.outcome = "IndexError"
            ELSE /\ next_time.outcome = "ok"
                 /\ next_time.result =
                        DateTime(next_time.base.day + 1, optimal_times[1], 0)

(* Base time 08:30 with the list [21, 9]: the answer is 21:00, not 09:00.  *)
C24_Witness ==
    /\ next_time.outcome = "ok"
    /\ optimal_times = <<21, 9>>
    /\ next_time.base = DateTime(0, 8, 30)
    /\ next_time.result = DateTime(0, 21, 0)

(***************************************************************************)
(* Properties of schedule_batch_uploads.                                   *)
(***************************************************************************)
BatchStep == ret'.op = "schedule_batch_uploads" /\ clock' = clock

(* C22: a call of schedule_batch_uploads with lists of different lengths   *)
(* fails with PublishingError and leaves the stored queue as it was.       *)
C22_MismatchFailsFirst ==
    [][(BatchStep /\ batch'.files # batch'.metadata)
          => (batch'.outcome = "PublishingError" /\ queue' = queue)]_vars

C22_Witness ==
    /\ batch.outcome = "PublishingError"
    /\ batch.files = 2 /\ batch.metadata = 1
    /\ Len(queue) = 1

(* C23: a call of schedule_batch_uploads with n files, n metadata, start   *)
(* time T and interval h succeeds, keeps the entries there were, appends   *)
(* exactly n entries whose scheduled times are T, T+h, ..., T+(n-1)h, in   *)
(* that order, each on the given platform with priority 5 and status       *)
(* queued, and returns their n ids in that order.                          *)
C23_BatchTimesInOrder ==
    [][(BatchStep /\ batch'.files = batch'.metadata /\ batch'.start.has)
          => LET n == batch'.files
                 T == HoursOf(batch'.start.dt)
                 h == batch'.hours
                 old == Len(queue)
             IN  /\ batch'.outcome = "ok"
                 /\ Len(queue') = old + n
                 /\ SubSeq(queue', 1, old) = queue
                 /\ Len(batch'.ids) = n
                 /\ \A i \in 1..n :
                       LET e == queue'[old + i]
                       IN  /\ e.scheduled_time = SomeTime(T + (i - 1) * h)
                           /\ e.platform = batch'.platform
                           /\ e.priority = 5
                           /\ e.status = "queued"
                           /\ batch'.ids[i] = e.id]_vars

(* Two files from 10:00 every 4 hours behind an entry already queued.      *)
C23_Witness ==
    /\ batch.outcome = "ok"
    /\ batch.files = 2 /\ batch.start = SomeBase(DateTime(0, 10, 0))
    /\ batch.hours = 4
    /\ Len(queue) = 3
    /\ queue[2].scheduled_time = SomeTime(10)
    /\ queue[3].scheduled_time = SomeTime(14)

(***************************************************************************)
(* Properties of get_queue_statistics.                                     *)
(***************************************************************************)
StatsStep == ret'.op = "get_queue_statistics" /\ clock' = clock

WithStatus(st) == {i \in 1..Len(queue) : queue[i].status = st}

RECURSIVE SumOver(_, _)
SumOver(f, S) ==
    IF S = {} THEN 0
    ELSE LET x == CHOOSE y \in S : TRUE
         IN  f[x] + SumOver(f, S \ {x})

(* C26: get_queue_statistics leaves the queue as it was; total is the      *)
(* number of entries and the sum of the four per-status counts, and each   *)
(* per-status count is the number of entries with that status and the sum, *)
(* over the platforms reported, of that platform's count for the status.   *)
C26_StatisticsAddUp ==
    [][StatsStep =>
          /\ queue' = queue
          /\ stats'.total = Len(queue)
          /\ stats'.total = SumOver(stats'.counts, QueueStatuses)
          /\ DOMAIN stats'.by_platform =
                {queue[i].platform : i \in 1..Len(queue)}
          /\ \A st \in QueueStatuses :
                /\ stats'.counts[st] = Cardinality(WithStatus(st))
                /\ stats'.counts[st] =
                      SumOver([p \in DOMAIN stats'.by_platform |->
                                  stats'.by_platform[p][st]],
                              DOMAIN stats'.by_platform)]_vars

(* Two entries on two platforms, one of them completed.                    *)
C26_Witness ==
    /\ ret.op = "get_queue_statistics"
    /\ stats.total = 2
    /\ stats.counts["completed"] = 1
    /\ stats.counts["queued"] = 1
    /\ DOMAIN stats.by_platform = {"youtube", "tiktok"}
    /\ stats.by_platform["tiktok"]["completed"] = 1
    /\ Len(queue) = 2

(* C25: an unscheduled entry that has just been added is returned by the   *)
(* next get_ready_uploads; get_queue_statistics counts every completed     *)
(* entry once under completed and not under queued or uploading; and       *)
(* get_ready_uploads returns no completed entry.                           *)
C25_RoundTrip ==
    [][/\ (/\ ret.op = "add_to_queue"
           /\ ~queue[Len(queue)].scheduled_time.has
           /\ ret'.op = "get_ready_uploads")
          => (/\ ret'.outcome = "ok"
              /\ \E k \in 1..Len(ret'.ids) : ret'.ids[k] = Len(queue))
       /\ StatsStep
          => \A st \in {"completed", "queued", "uploading"} :
                stats'.counts[st] = Cardinality(WithStatus(st))
       /\ (ret'.op = "get_ready_uploads" /\ ret'.outcome = "ok")
          => \A k \in 1..Len(ret'.ids) :
                queue[ret'.ids[k]].status # "completed"]_vars

(***************************************************************************)
(* Properties of filter_videos.                                            *)
(***************************************************************************)
Candidates == 1..Len(filtered.videos)

IsKept(i) ==
    \E k \in 1..Len(filtered.kept) :
        filtered.kept[k].video_id = filtered.videos[i].id

SecondsOf(i) == ParseDuration(filtered.videos[i].duration)

AgeMinutes(i) == filtered.now * 60 - filtered.videos[i].published_at

FreshAndViewed(i) ==
    /\ filtered.videos[i].category_id # "10"
    /\ 0 < AgeMinutes(i)
    /\ AgeMinutes(i) < filtered.max_age_hours * 60
    /\ ViewCount(filtered.videos[i]) * 60
          >= filtered.min_vph * AgeMinutes(i)

(* C27 as stated: every candidate that filter_videos keeps has a duration  *)
(* strictly between 0 and 60 seconds, so that one of 0, exactly 60 or 90   *)
(* seconds is never kept.                                                  *)
C27_KeptStrictlyBelowCeiling ==
    \A i \in Candidates :
        IsKept(i) => (0 < SecondsOf(i) /\ SecondsOf(i) < DefaultMaxDuration)

(* C27 amended: every candidate that filter_videos keeps has a duration    *)
(* greater than 0 and at most 60 seconds: one of 0, 61 or 90 seconds, or   *)
(* with a duration that does not parse, is never kept, and one of exactly  *)
(* 60 seconds is kept when its category, age and views pass.               *)
C27_KeptUpToCeiling ==
    \A i \in Candidates :
        /\ IsKept(i) =>
              (0 < SecondsOf(i) /\ SecondsOf(i) <= DefaultMaxDuration)
        /\ (SecondsOf(i) = DefaultMaxDuration /\ FreshAndViewed(i)) =>
              IsKept(i)

(* A 60-second video two hours old with 20000 views is kept at floor 10000.*)
C27_Witness ==
    /\ filtered.outcome = "ok"
    /\ filtered.videos =
          <<Video(1, "22", IsoDuration(1, 0), 0 - 120, 20000)>>
    /\ filtered.now = 0
    /\ filtered.min_vph = 10000
    /\ Len(filtered.kept) = 1
    /\ filtered.kept[1].duration = 60

(* C28: a candidate that passes the duration test is kept exactly when its *)
(* category is not '10', its age is greater than 0 and less than           *)
(* max_age_hours, and its view count divided by its age in hours is at     *)
(* least min_vph; the kept candidates come in the order of the input.      *)
C28_KeptIffFreshAndViewed ==
    /\ \A i \in Candidates :
          (0 < SecondsOf(i) /\ SecondsOf(i) <= DefaultMaxDuration) =>
              (IsKept(i) <=> FreshAndViewed(i))
    /\ \A k, l \in 1..Len(filtered.kept) :
          k < l => filtered.kept[k].video_id < filtered.kept[l].video_id

(* Two hours old with 20000 views and floor 10000: kept; the same video    *)
(* is in a list whose music entry is dropped.                              *)
C28_Witness ==
    /\ filtered.outcome = "ok"
    /\ Len(filtered.videos) = 3
    /\ filtered.max_age_hours = 48 /\ filtered.min_vph = 10000
    /\ filtered.now = 0
    /\ Len(filtered.kept) = 1
    /\ filtered.kept[1].video_id = 1
    /\ filtered.kept[1].vph = 10000

(***************************************************************************)
(* Properties of the queue next to the publish records.                    *)
(***************************************************************************)
QueueOperations ==
    {"add_to_queue", "get_ready_uploads", "update_entry_status",
     "remove_from_queue", "cleanup_completed", "get_queue_statistics"}

QueuedAndDue(platform) ==
    {i \in 1..Len(queue) :
        /\ queue[i].status = "queued"
        /\ platform \in {NoFilter, queue[i].platform}
        /\ (queue[i].scheduled_time.has =>
               FromIso(queue[i].scheduled_time.iso) <= clock)}

MixedKeys(S) ==
    \E i, j \in S :
        /\ queue[i].priority = queue[j].priority
        /\ queue[i].scheduled_time.has /\ ~queue[j].scheduled_time.has

(* C29: no queue operation changes the publish records, the daily limit or *)
(* the last answer of check_daily_limit, and what get_ready_uploads gives  *)
(* back is fixed by the queue, the clock and its arguments alone: whether  *)
(* it fails depends on the ready entries only, and when it succeeds it     *)
(* returns exactly the queued, due entries of the platform asked for,      *)
(* whatever the publish records and the limit are.                         *)
C29_ReadyIgnoresPublishRecords ==
    [][(ret'.op \in QueueOperations /\ clock' = clock) =>
          /\ records' = records
          /\ daily_limit' = daily_limit
          /\ report' = report
          /\ ret'.op = "get_ready_uploads" =>
                LET due == QueuedAndDue(ret'.platform)
                IN  /\ (ret'.outcome = "ok") <=> ~MixedKeys(due)
                    /\ ret'.outcome = "ok" =>
                          {ret'.ids[k] : k \in 1..Len(ret'.ids)} = due]_vars

(* The limit of the day is reached for youtube, and the queued youtube     *)
(* entry is returned all the same.                                         *)
C29_Witness ==
    /\ report.outcome = "ok" /\ report.platform = "youtube"
    /\ report.limit_reached
    /\ report.limit = 1 /\ report.used = 1
    /\ report.start = StartOfDay(clock)
    /\ ret.op = "get_ready_uploads" /\ ret.outcome = "ok"
    /\ ret.now = clock
    /\ Len(ret.ids) = 1
    /\ queue[ret.ids[1]].platform = "youtube"

(***************************************************************************)
(* Properties of the queue operations as a whole.                          *)
(***************************************************************************)
IdAndStatus(q) == [i \in 1..Len(q) |-> <<q[i].id, q[i].status>>]

RECURSIVE IsSubsequence(_, _)
IsSubsequence(a, b) ==
    IF a = <<>> THEN TRUE
    ELSE IF b = <<>> THEN FALSE
    ELSE IF Head(a) = Head(b) THEN IsSubsequence(Tail(a), Tail(b))
    ELSE IsSubsequence(a, Tail(b))

UpdateEntryStep ==
    ret'.op = "update_entry_status" /\ calls' = calls + 1

(* C31: in every step that is not a call of update_entry_status, the clock *)
(* moving on included, the entries that stay in the queue keep their       *)
(* status and their order: the queue after the step is the queue before    *)
(* it with some entries taken out, and after add_to_queue one queued entry *)
(* more at its end.                                                        *)
C31_StatusOnlyByUpdate ==
    [][~UpdateEntryStep =>
          LET old == IdAndStatus(queue)
              new == IdAndStatus(queue')
          IN  IF ret'.op = "add_to_queue" /\ calls' = calls + 1
              THEN /\ Len(new) = Len(old) + 1
                   /\ SubSeq(new, 1, Len(old)) = old
                   /\ queue'[Len(queue')].status = "queued"
              ELSE IsSubsequence(new, old)]_vars

(* A failed entry, failed an hour ago and still failed after a cleanup.    *)
C31_Witness ==
    /\ ret.op = "cleanup_completed"
    /\ \E i \in 1..Len(queue) :
          /\ queue[i].status = "failed"
          /\ FromIso(queue[i].completed_at.iso) < clock

(* C32: a call add_to_queue(platform, scheduled_time, priority) makes the  *)
(* queue one entry longer, leaves the entries there were as they were and  *)
(* in their order, and puts at the end an entry with the platform,         *)
(* scheduled time and priority given, status queued, attempts 0 and no     *)
(* last_error, whose id is the one returned.                               *)
C32_AddAppendsOne ==
    [][(ret'.op = "add_to_queue" /\ calls' = calls + 1) =>
          \A a \in AddInputs :
              AddToQueue(a[1], a[2], a[3]) =>
                  LET n == Len(queue)
                      e == queue'[n + 1]
                  IN  /\ Len(queue') = n + 1
                      /\ SubSeq(queue', 1, n) = queue
                      /\ e.platform = a[1]
                      /\ e.scheduled_time = a[2]
                      /\ e.priority = a[3]
                      /\ e.status = "queued"
                      /\ e.attempts = 0
                      /\ e.last_error = NoMessage
                      /\ ret'.ids = <<e.id>>]_vars

(* A scheduled entry of priority 8 added behind one that is uploading.     *)
C32_Witness ==
    /\ ret.op = "add_to_queue"
    /\ Len(queue) = 2
    /\ queue[1].status = "uploading"
    /\ queue[2].status = "queued"
    /\ queue[2].priority = 8
    /\ queue[2].scheduled_time = SomeTime(1)
    /\ ret.ids = <<queue[2].id>>

Changed == {i \in 1..Len(queue) : queue'[i] # queue[i]}

(* C33: after remove_from_queue(id) no entry has that id, the entries with *)
(* another id are all there, unchanged and in their order, and the queue   *)
(* is as it was when no entry had the id; update_entry_status(id, ...)     *)
(* keeps the number and order of the entries, changes no entry with        *)
(* another id, and changes at most one entry.                              *)
C33_OthersUntouched ==
    [][/\ (ret'.op = "remove_from_queue" /\ calls' = calls + 1) =>
             \A id \in KnownIds :
                 RemoveFromQueue(id) =>
                     /\ \A i \in 1..Len(queue') : queue'[i].id # id
                     /\ IsSubsequence(queue', queue)
                     /\ Len(queue') =
                           Cardinality({i \in 1..Len(queue) :
                                           queue[i].id # id})
                     /\ (\A i \in 1..Len(queue) : queue[i].id # id)
                           => queue' = queue
       /\ UpdateEntryStep =>
             /\ Len(queue') = Len(queue)
             /\ \A i \in Changed : queue[i].id = ret'.ids[1]
             /\ \A i \in 1..Len(queue) : queue'[i].id = queue[i].id
             /\ Cardinality(Changed) <= 1]_vars

(* Two entries with one id: the update has changed the first of them only. *)
C33_Witness ==
    /\ ret.op = "update_entry_status"
    /\ Len(queue) = 2
    /\ queue[1].id = queue[2].id
    /\ ret.ids = <<queue[1].id>>
    /\ queue[1].status = "uploading"
    /\ queue[2].status = "queued"

(* C36: update_status on an existing item stores each of the 11 statuses   *)
(* whatever the current status is and returns normally, and                *)
(* analyze_video_by_id on an existing item sets ANALYZING on the row of    *)
(* its session whatever the current status is.                             *)
C36_AnyStatusAccepted ==
    [][/\ (ret'.op = "update_status" /\ 1 \in DOMAIN videos) =>
             \A st \in VideoStatuses :
                 UpdateStatus(1, st, NoMessage) =>
                     (ret'.outcome = "ok" /\ videos'[1].status = st)
       /\ (1 \in DOMAIN videos /\ AnalyzeBegin(1)) =>
             (pc' = "analysing" /\ sess'[1].status = "analyzing")]_vars

(* The analysis has begun on an item that was skipped.                     *)
C36_Witness ==
    /\ pc = "analysing"
    /\ videos[1].status = "skipped"
    /\ sess[1].status = "analyzing"

(* C37: every entry of the queue has a priority between 1 and 10.          *)
C37_PriorityInRange ==
    \A i \in 1..Len(queue) : queue[i].priority \in 1..10

(***************************************************************************)
(* Properties of the dispatcher on the queue.                              *)
(***************************************************************************)
(* C34: with one dispatcher and no entry ever set back to queued, the      *)
(* uploader is invoked at most once for every entry of the queue.          *)
C34_UploadedAtMostOnce ==
    \A i \in DOMAIN uploads : uploads[i] <= 1

PollStep(d) ==
    /\ ret'.op = "get_ready_uploads"
    /\ dispatchers[d].pc = "idle"
    /\ dispatchers'[d].rounds = dispatchers[d].rounds + 1

(* C35: the step in which a dispatcher takes its ready entries leaves the  *)
(* queue as it was and, when it succeeds, hands over every queued entry    *)
(* that is due, whether or not another dispatcher is holding it; and an    *)
(* entry is only marked uploading by a later step of its own.              *)
C35_PollClaimsNothing ==
    [][\A d \in Dispatchers :
          PollStep(d) =>
              /\ queue' = queue
              /\ ret'.outcome = "ok" =>
                    {dispatchers'[d].todo[k] :
                        k \in 1..Len(dispatchers'[d].todo)}
                        = QueuedAndDue(NoFilter)]_vars

(* One entry in the queue, each dispatcher has asked once, and the entry   *)
(* has been uploaded twice.                                                *)
C35_Witness ==
    /\ Len(queue) = 1
    /\ dispatchers[1].rounds = 1 /\ dispatchers[2].rounds = 1
    /\ UploadsOf(1) = 2

(***************************************************************************)
(* Properties of discovery.                                                *)
(***************************************************************************)

DiscoveryStep ==
    /\ ret'.op \in {"discover_and_save", "add_single_url"}
    /\ calls' = calls + 1

VideoIdsOf(rows) == {rows[i].video_id : i \in DOMAIN rows}

(* C38: a discover_and_save or add_single_url run keeps the rows it found, *)
(* appends only rows with status PENDING whose video id no earlier row     *)
(* has, leaves no two rows with the same video id, and discover_and_save   *)
(* returns the number of rows it appended.                                 *)
C38_NoSharedVideoId ==
    [][DiscoveryStep =>
        /\ Len(videos') >= Len(videos)
        /\ SubSeq(videos', 1, Len(videos)) = videos
        /\ \A i \in (Len(videos) + 1)..Len(videos') :
              /\ videos'[i].status = "pending"
              /\ videos'[i].video_id \notin VideoIdsOf(videos)
        /\ \A i, j \in DOMAIN videos' :
              videos'[i].video_id = videos'[j].video_id => i = j
        /\ ret'.op = "discover_and_save"
              => ret'.ids = <<Len(videos') - Len(videos)>>]_vars

(* A run that found one of its two videos already stored, in another       *)
(* status, and added the other.                                            *)
C38_Witness ==
    /\ ret.op = "discover_and_save"
    /\ ret.ids = <<1>>
    /\ Len(videos) = 2
    /\ videos[1].status = "analyzing"
    /\ videos[2].status = "pending"

(***************************************************************************)
(* Properties of the limit of get_ready_uploads.                           *)
(***************************************************************************)

ReadyStep == ret' # ret /\ ret'.op = "get_ready_uploads"

Later(a, b) ==
    \/ a.day > b.day
    \/ a.day = b.day /\ a.hour > b.hour
    \/ a.day = b.day /\ a.hour = b.hour /\ a.minute > b.minute

ListedHours == {DefaultOptimalTimes[i] : i \in DOMAIN DefaultOptimalTimes}

NextTimeStep == next_time' # next_time

(* A batch that was left to pick its own start and enqueued something.     *)
OwnStartBatchStep ==
    /\ ret'.op = "schedule_batch_uploads"
    /\ calls' > calls
    /\ ~batch'.start.has

(* The entries the step appended lie in the future at the time of the call *)
(* and are not among those get_ready_uploads would return at that time.    *)
AppendedInFuture ==
    \A i \in (Len(queue) + 1)..Len(queue') :
        /\ queue'[i].scheduled_time.has
        /\ FromIso(queue'[i].scheduled_time.iso) > clock
        /\ \A k \in 1..Len(ReadyIdx(queue', NoFilter, clock)) :
              ReadyIdx(queue', NoFilter, clock)[k] # i

SoonerOrLater ==
    /\ optimal_times = DefaultOptimalTimes
    /\ NextTimeStep =>
          /\ next_time'.outcome = "ok"
          /\ Later(next_time'.result, next_time'.base)
          /\ next_time'.result.hour \in ListedHours

(* C40: with the default hour list get_next_upload_time returns a time     *)
(* strictly later than the base time at one of the listed hours, and every *)
(* entry that schedule_batch_uploads enqueues without a start time is      *)
(* scheduled in the future and not ready at the time of the call.          *)
C40_BatchInFuture ==
    [][SoonerOrLater /\ (OwnStartBatchStep => AppendedInFuture)]_vars

(* C40 for intervals that do not run backwards: the same, for a batch      *)
(* whose interval_hours is not negative.                                   *)
C40_ForwardBatchInFuture ==
    [][SoonerOrLater /\
       (OwnStartBatchStep /\ batch'.hours >= 0 => AppendedInFuture)]_vars

(* Two entries enqueued four hours apart from a start the batch picked.    *)
C40_Witness ==
    /\ ret.op = "schedule_batch_uploads"
    /\ ret.now = clock
    /\ batch.outcome = "ok"
    /\ ~batch.start.has
    /\ batch.hours = 4
    /\ Len(batch.ids) = 2
    /\ Len(queue) >= 2
    /\ FromIso(queue[Len(queue) - 1].scheduled_time.iso) = 9
    /\ FromIso(queue[Len(queue)].scheduled_time.iso) = 13

(***************************************************************************)
(* Properties of the item and task stores.                                 *)
(***************************************************************************)
AnalysisRaised ==
    /\ ret.op = "analyze_video_by_id"
    /\ ret.outcome = "raised"
    /\ pc = "idle"

(* C6: once analyze_video_by_id has ended with the exception of the        *)
(* analysis step, the committed row has status FAILED and its              *)
(* error_message is the failure text.                                      *)
C6_FailureRecorded ==
    AnalysisRaised =>
        /\ videos[ret.ids[1]].status = "failed"
        /\ videos[ret.ids[1]].error_message = AnalysisFailure

Truthy(m) == m \notin {NoMessage, ""}

(* C7 as stated: update_status and update_task_status on an existing row   *)
(* store a given error message and add exactly one to retry_count; without *)
(* an error message they leave retry_count as it is.                       *)
C7_ErrorCountsRetry ==
    [][/\ \A id \in DOMAIN videos, u \in VideoUpdateInputs :
             UpdateStatus(id, u[1], u[2]) =>
                 IF Truthy(u[2])
                 THEN /\ videos'[id].error_message = u[2]
                      /\ videos'[id].retry_count = videos[id].retry_count + 1
                 ELSE videos'[id].retry_count = videos[id].retry_count
       /\ \A id \in DOMAIN tasks, u \in TaskUpdateInputs :
             UpdateTaskStatus(id, u[1], u[2], u[3]) =>
                 IF Truthy(u[2])
                 THEN /\ tasks'[id].error_message = u[2]
                      /\ tasks'[id].retry_count = tasks[id].retry_count + 1
                 ELSE tasks'[id].retry_count = tasks[id].retry_count]_vars

(* C7 amended: update_status and update_task_status on an existing row     *)
(* store a given error message and leave retry_count as it is, with or     *)
(* without an error message; retry_count grows, by exactly one, only in    *)
(* increment_retry_count.                                                  *)
C7_ErrorKeepsRetryCount ==
    [][/\ \A id \in DOMAIN videos, u \in VideoUpdateInputs :
             UpdateStatus(id, u[1], u[2]) =>
                 /\ Truthy(u[2]) => videos'[id].error_message = u[2]
                 /\ videos'[id].retry_count = videos[id].retry_count
       /\ \A id \in DOMAIN tasks, u \in TaskUpdateInputs :
             UpdateTaskStatus(id, u[1], u[2], u[3]) =>
                 /\ Truthy(u[2]) => tasks'[id].error_message = u[2]
                 /\ tasks'[id].retry_count = tasks[id].retry_count
       /\ \A id \in DOMAIN videos :
             videos'[id].retry_count # videos[id].retry_count =>
                 /\ IncrementRetryCount(id)
                 /\ videos'[id].retry_count = videos[id].retry_count + 1
       /\ \A id \in DOMAIN tasks :
             tasks'[id].retry_count # tasks[id].retry_count =>
                 /\ IncrementTaskRetryCount(id)
                 /\ tasks'[id].retry_count = tasks[id].retry_count + 1]_vars

(* An item and a task that each had an error message stored by a status    *)
(* update and still have retry_count 0.                                    *)
C7_Witness ==
    /\ ret.op = "update_task_status"
    /\ \E id \in DOMAIN videos :
          /\ videos[id].error_message = "boom"
          /\ videos[id].retry_count = 0
    /\ \E id \in DOMAIN tasks :
          /\ tasks[id].error_message = "boom"
          /\ tasks[id].retry_count = 0

(* A step of update_status / update_task_status (or cancel_task).          *)
VideoUpdateStep == ret'.op = "update_status" /\ calls' = calls + 1

TaskUpdateStep ==
    ret'.op \in {"update_task_status", "cancel_task"} /\ calls' = calls + 1

TerminalTaskStatuses == {"completed", "failed", "cancelled"}

(* C16 as stated: update_status and update_task_status with an id that no  *)
(* row has end with an error at the caller, and no row is created or       *)
(* changed.                                                                *)
C16_NotFoundRaises ==
    [][/\ (VideoUpdateStep /\ ret'.ids[1] \notin DOMAIN videos) =>
             (ret'.outcome = "raised" /\ videos' = videos /\ tasks' = tasks)
       /\ (ret'.op = "update_task_status" /\ calls' = calls + 1
             /\ ret'.ids[1] \notin DOMAIN tasks) =>
             (ret'.outcome = "raised" /\ videos' = videos /\ tasks' = tasks)]_vars

(* C16 amended: with an id that no row has, update_status and              *)
(* update_task_status return None to the caller without raising, and no    *)
(* row is created or changed.                                              *)
C16_NotFoundReturnsNone ==
    [][/\ (VideoUpdateStep /\ ret'.ids[1] \notin DOMAIN videos) =>
             (ret'.outcome = "None" /\ videos' = videos /\ tasks' = tasks)
       /\ (ret'.op = "update_task_status" /\ calls' = calls + 1
             /\ ret'.ids[1] \notin DOMAIN tasks) =>
             (ret'.outcome = "None" /\ videos' = videos /\ tasks' = tasks)]_vars

(* update_status has returned None for an id that none of the stored items *)
(* has.                                                                    *)
C16_Witness ==
    /\ ret.op = "update_status"
    /\ ret.outcome = "None"
    /\ Len(videos) > 0
    /\ ret.ids[1] \notin DOMAIN videos

(* C17: a status update whose target is not a member of the status enum    *)
(* ends with an error and no row holds the unknown value: this for every   *)
(* id, whether a row has it or not.                                        *)
C17_UnknownStatusRejected ==
    [][/\ \A id \in VideoIds :
             UpdateStatus(id, RawAnalyzed, NoMessage) =>
                 (ret'.outcome = "raised" /\ videos' = videos)
       /\ \A id \in TaskIds :
             UpdateTaskStatus(id, RawAnalyzed, NoMessage, "null") =>
                 (ret'.outcome = "raised" /\ tasks' = tasks)
       /\ \A id \in DOMAIN videos' : videos'[id].status \in VideoStatuses
       /\ \A id \in DOMAIN tasks' : tasks'[id].status \in TaskStatuses]_vars

(* C18: once started_at of a task is set it never changes; entering        *)
(* RUNNING sets it, to the time of the call, only while it is unset.       *)
C18_StartedAtSetOnce ==
    [][\A id \in DOMAIN tasks :
          /\ tasks[id].started_at # NullTime =>
                 tasks'[id].started_at = tasks[id].started_at
          /\ tasks'[id].started_at # tasks[id].started_at =>
                 /\ TaskUpdateStep
                 /\ ret'.ids[1] = id
                 /\ tasks'[id].status = "running"
                 /\ tasks'[id].started_at = clock
          /\ (TaskUpdateStep /\ ret'.ids[1] = id /\ ret'.outcome = "ok"
                 /\ tasks'[id].status = "running") =>
                 tasks'[id].started_at # NullTime]_vars

(* A task that ran, ended, and is RUNNING again at a later time: it has a  *)
(* completed_at and its started_at is older than the last call.            *)
C18_Witness ==
    /\ ret.op = "update_task_status"
    /\ \E id \in DOMAIN tasks :
          /\ tasks[id].status = "running"
          /\ tasks[id].completed_at # NullTime
          /\ tasks[id].started_at # NullTime
          /\ tasks[id].started_at < ret.now

(* C19 as stated: once the status of a task is COMPLETED, FAILED or        *)
(* CANCELLED no step changes it.                                           *)
C19_TerminalIsFinal ==
    [][\A id \in DOMAIN tasks :
          tasks[id].status \in TerminalTaskStatuses =>
              tasks'[id].status = tasks[id].status]_vars

(* C19 amended: update_task_status stores the status it is given on any    *)
(* existing task, whatever its current status, and cancel_task sets        *)
(* CANCELLED on any existing task; the status of a task changes in no      *)
(* other step.                                                             *)
C19_StatusSetByUpdate ==
    [][/\ ret'.op = "update_task_status" =>
             \A id \in DOMAIN tasks, u \in TaskUpdateInputs :
                 (u[1] \in TaskStatuses
                    /\ UpdateTaskStatus(id, u[1], u[2], u[3]))
                     => tasks'[id].status = u[1]
       /\ ret'.op = "cancel_task" =>
             \A id \in DOMAIN tasks :
                 CancelTask(id) => tasks'[id].status = "cancelled"
       /\ \A id \in DOMAIN tasks :
             tasks'[id].status # tasks[id].status =>
                 (TaskUpdateStep /\ ret'.ids[1] = id)]_vars

(* A task that was COMPLETED, with its result, and is RUNNING now.         *)
C19_Witness ==
    \E id \in DOMAIN tasks :
        /\ tasks[id].status = "running"
        /\ tasks[id].result = "result"
        /\ tasks[id].completed_at # NullTime

(* C20: every task that is COMPLETED, FAILED or CANCELLED has a            *)
(* completed_at, every step into one of these statuses writes completed_at *)
(* with the time of the step, and every status update of an item writes    *)
(* its updated_at.                                                         *)
C20_CompletionStamped ==
    [][/\ \A id \in DOMAIN tasks' :
             tasks'[id].status \in TerminalTaskStatuses =>
                 tasks'[id].completed_at # NullTime
       /\ (TaskUpdateStep /\ ret'.outcome = "ok") =>
             LET id == ret'.ids[1]
             IN  tasks'[id].status \in TerminalTaskStatuses =>
                     tasks'[id].completed_at = clock
       /\ (VideoUpdateStep /\ ret'.outcome = "ok") =>
             videos'[ret'.ids[1]].updated_at = clock]_vars

(* A task cancelled, and an item whose status was updated, after the clock *)
(* had moved on from their creation.                                       *)
C20_Witness ==
    /\ \E id \in DOMAIN tasks :
          /\ tasks[id].status = "cancelled"
          /\ tasks[id].completed_at > 0
    /\ \E id \in DOMAIN videos :
          /\ videos[id].status # "pending"
          /\ videos[id].updated_at > 0

C30_ProgressClamped ==
    [][/\ \A id \in DOMAIN tasks' :
             tasks'[id].progress >= 0 /\ tasks'[id].progress <= ProgressOne
       /\ (ret'.op = "update_progress" /\ calls' = calls + 1
             /\ ret'.outcome = "ok") =>
             LET id == ret'.ids[1]
                 given == ret'.limit
                 stored == IF given < 0 THEN 0
                           ELSE IF given > ProgressOne THEN ProgressOne
                           ELSE given
             IN  tasks' = [tasks EXCEPT ![id] = [@ EXCEPT !.progress = stored]]
       /\ \A id \in DOMAIN tasks :
             tasks'[id].progress # tasks[id].progress =>
                 ret'.op = "update_progress"]_vars

(* update_progress was given 1.5 and the task holds 1.0.                   *)
C30_Witness ==
    /\ ret.op = "update_progress"
    /\ ret.limit = ProgressOne + 5
    /\ \E id \in DOMAIN tasks : tasks[id].progress = ProgressOne

(***************************************************************************)
(* Properties of concurrent writers.                                       *)
(***************************************************************************)
(* An id was returned by add_to_queue and no entry of the file has it.     *)
LostAdd ==
    \E id \in acked.ids : \A i \in Entries : queue[i].id # id

(* The last update_entry_status that returned for an id set a status that  *)
(* the entry in the file does not have.                                    *)
LostStatus ==
    \E x \in acked.status :
        /\ FirstWithId(queue, x[1]) # 0
        /\ queue[FirstWithId(queue, x[1])].status # x[2]

(* C9: when every call runs from its load to its save with no other call   *)
(* in between, no returned add and no returned status update is lost;      *)
(* when the calls of two processes interleave, one can be.                 *)
C9_SerialLosesNothing == serial => (~LostAdd /\ ~LostStatus)

(* Both processes are back from their calls, they were not kept apart, and *)
(* an entry whose id was returned is missing from the file.                *)
C9_Witness ==
    /\ ~serial
    /\ \A w \in Writers : writers[w].pc = "idle"
    /\ LostAdd

====
